---------------------------- MODULE Spec2Model ----------------------------
(***************************************************************************)
(* A model of the scaproust socket engine.                                 *)
(*                                                                         *)
(*   Spec        the socket (src/src/socket_impl.rs) with its protocol     *)
(*               policy (src/src/protocol/pbu.rs for Pub), its timers and  *)
(*               the blocking facade (src/src/socket_facade.rs).           *)
(*   SpecPipe    the pipe state machine of src/src/pipe.rs: handshake and  *)
(*               length-prefixed message reception.                        *)
(*   SpecPub     the Pub socket alone, its hand-offs recorded.             *)
(*   SpecSub, SpecReqRep, SpecSurvey, SpecPipeline, SpecBus                *)
(*               sockets of the other patterns joined by pipes, their      *)
(*               policies as section 4.3 of the specification words them.  *)
(*   SpecOwned   the pipe of src/src/pipe.rs held by a Pub socket: what    *)
(*               the socket learns of the pipe's failures.                 *)
(*   SpecIdSeq   the token counter of src/src/global.rs and its clones.    *)
(*   SpecTypes   socket types and their compatibility (global.rs).         *)
(*   SpecFacade  the command queue and the reply channel between the       *)
(*               facade (src/src/socket_facade.rs) and the event loop.     *)
(*   SpecRecvOp  the receive operation of src/src/pipe.rs, called step by  *)
(*               step on a stream the peer writes to and closes.           *)
(*   SpecAccept  readiness events on a socket with a bound acceptor.       *)
(*   SpecPolicy  the calls of the Pub policy (protocol/pbu.rs) in any      *)
(*               order.                                                    *)
(*   SpecDesigns a pipe of src/src/pipe.rs beside a pipe of                *)
(*               src/src/transport/stream, both in Initial.                *)
(***************************************************************************)
EXTENDS Integers, Sequences, FiniteSets, Bags, TLC

VARIABLES
    \* ---- socket engine (Spec) ----
    stype,          \* socket type of the socket under study
    pipes,          \* Pub.pipes: token -> pipe
    dist,           \* Pub.dist: set of tokens
    acceptors,      \* SocketImpl.acceptors: token -> address
    idSeq,          \* IdSequence.value
    timers,         \* bag of armed event-loop timeouts
    inbox,          \* the socket's reply channel (SocketNotify, unread)
    awaiting,       \* the command the facade is blocked on, or "none"
    panicked,       \* the engine thread has panicked
    sendTimeoutOpt, \* SendTimeout requested through SetOption (<<>> = unset)
    recvTimeoutOpt, \* RecvTimeout requested through SetOption (<<>> = unset)
    pendingSend,    \* the send slot of a parking protocol (<<>> = empty)
    pendingRecv,    \* the recv slot of a parking protocol
    openedSig,      \* PipeEvtSignal::Opened signals in flight (tokens)
    sndSig,         \* PipeEvtSignal::MsgSnd signals in flight (tokens)
    rcvSig,         \* tokens of pipes with a reception that will complete
    origins,        \* history: token -> address of each successful connect
    bound,          \* history: token -> address of each successful bind
    sendOwed,       \* history: SendMsg commands processed minus their replies
    recvOwed,       \* history: RecvMsg commands processed minus their replies
    connOwed,       \* history: Connect/Bind commands processed minus replies
    logging,        \* whether the hand-offs to the pipes are recorded
    nSent,          \* history: SendMsg commands processed (when logging)
    handedTo,       \* history: token -> ordinals of the sends handed to it
    \* ---- pipe state machine (SpecPipe) ----
    pstate,         \* Pipe.state: name of the current PipeState
    ptype,          \* socket type owning the pipe
    peerType,       \* socket type of the peer
    stream,         \* bytes sent by the peer, not yet read
    wrote,          \* bytes written by the pipe
    registry,       \* the pipe's registration with the event loop: interest,
                    \* poll options, armed, and the history of register and
                    \* reregister calls (<<>> = not registered)
    signals,        \* event loop channel: signals sent by the pipe
    bodies,         \* history: message bodies the peer framed, in order
    rxBytes,        \* history: the bytes read_handshake took from the stream
    \* ---- sockets joined by pipes (SpecSub, SpecReqRep, ...) ----
    \* also the objects of SpecOwned, SpecIdSeq, SpecTypes and SpecFacade,
    \* and the channels between them
    nodes,          \* socket name -> the state of its protocol policy
    wire,           \* << from, to >> -> messages written and not yet read
    results         \* history: socket name -> what its calls returned

engineVars == << stype, pipes, dist, acceptors, idSeq, timers, inbox, awaiting,
                 panicked, sendTimeoutOpt, recvTimeoutOpt, pendingSend,
                 pendingRecv, openedSig, sndSig, rcvSig, origins, bound,
                 sendOwed, recvOwed, connOwed, logging, nSent, handedTo >>

pipeVars == << pstate, ptype, peerType, stream, wrote, registry, signals,
               bodies, rxBytes >>

netVars == << nodes, wire, results >>

vars == << engineVars, pipeVars, netVars >>

\* No socket but the socket under study.
NetIdle ==
    /\ nodes = << >>
    /\ wire = << >>
    /\ results = << >>

(***************************************************************************)
(* Bounds of the model.                                                    *)
(***************************************************************************)
MaxTokens == 2        \* tokens drawn from the id sequence
TimerCapacity == 2    \* timeouts the event loop's timer can hold
MaxAccept == 1        \* connections drained by one acceptor readiness
MaxSends == 2         \* SendMsg commands whose hand-offs are recorded

(***************************************************************************)
(* Program constants.                                                      *)
(***************************************************************************)
SendTimeoutMs == 1000
RecvTimeoutMs == 1000
ReconnectDelayMs == 200
RebindDelayMs == 200

\* Option<T>: the empty sequence is None, <<x>> is Some(x).
None == << >>
Some(x) == << x >>

\* Addresses are sequences of lexemes; "://" is the separator lexeme.
Sep == "://"
AddrTcp == << "tcp", Sep, "h" >>
AddrNoSep == << "tcp" >>
Addrs == { AddrTcp, AddrNoSep }

\* Durations a caller passes to set_send_timeout / set_recv_timeout (ms).
Timeouts == { 50 }

\* Message bodies a caller sends.
Msgs == { "m" }

SocketTypesEngine == { "Pub", "Push", "Pull" }

\* str::split("://").collect(): the parts between separators.
RECURSIVE SplitAcc(_, _, _)
SplitAcc(s, cur, acc) ==
    IF s = << >> THEN Append(acc, cur)
    ELSE IF Head(s) = Sep THEN SplitAcc(Tail(s), << >>, Append(acc, cur))
    ELSE SplitAcc(Tail(s), Append(cur, Head(s)), acc)

split(addr) == SplitAcc(addr, << >>, << >>)

\* SocketNotify values.
Notify(kind) == [kind |-> kind, err |-> "none"]
NotifyErr(kind, err) == [kind |-> kind, err |-> err]

\* EventLoopTimeout values together with their delay.
ReconnectT(tok, addr) ==
    [kind |-> "Reconnect", tok |-> Some(tok), addr |-> Some(addr), delay |-> ReconnectDelayMs]
RebindT(tok, addr) ==
    [kind |-> "Rebind", tok |-> Some(tok), addr |-> Some(addr), delay |-> RebindDelayMs]
CancelSendT ==
    [kind |-> "CancelSend", tok |-> None, addr |-> None, delay |-> SendTimeoutMs]
CancelRecvT ==
    [kind |-> "CancelRecv", tok |-> None, addr |-> None, delay |-> RecvTimeoutMs]

\* EventLoop::timeout_ms: Ok(handle) unless the timer refuses the timeout.
TimeoutOk(tm, ok) == ok /\ BagCardinality(tm) < TimerCapacity
timeout_ms(tm, t, ok) == IF TimeoutOk(tm, ok) THEN tm (+) SetToBag({t}) ELSE tm
\* EventLoop::clear_timeout(handle)
clear_timeout(tm, t) == tm (-) SetToBag({t})

\* Pipe::new followed by a successful Pipe::open.
NewPipe(addr) == [addr |-> addr, st |-> "HandshakeTx"]

\* The socket as a record, so that handlers compose.
Sock == [pipes |-> pipes, dist |-> dist, acceptors |-> acceptors,
         timers |-> timers, idSeq |-> idSeq]

Store(S) ==
    /\ pipes' = S.pipes
    /\ dist' = S.dist
    /\ acceptors' = S.acceptors
    /\ timers' = S.timers
    /\ idSeq' = S.idSeq

Without(f, k) == [x \in DOMAIN f \ {k} |-> f[x]]
With(f, k, v) == [x \in DOMAIN f \cup {k} |-> IF x = k THEN v ELSE f[x]]

\* Pub::add_pipe: HashMap::insert, the previous pipe of that token is replaced.
add_pipe(S, tok, pipe) == [S EXCEPT !.pipes = With(@, tok, pipe)]

\* Pub::remove_pipe
remove_pipe(S, tok) ==
    [S EXCEPT !.dist = @ \ {tok}, !.pipes = Without(@, tok)]

\* SocketImpl::on_pipe_error
on_pipe_error(S, tok, armOk) ==
    IF tok \in DOMAIN S.pipes
    THEN LET pipe == S.pipes[tok]
             S1 == remove_pipe(S, tok)
         IN  IF pipe.addr # None
             THEN [S1 EXCEPT !.timers = timeout_ms(@, ReconnectT(tok, pipe.addr[1]), armOk)]
             ELSE S1
    ELSE S

\* SocketImpl::on_connected: the pipe is opened, then handed to the protocol.
on_connected(S, addr, tok, openOk) ==
    IF openOk THEN add_pipe(S, tok, NewPipe(addr)) ELSE S

\* SocketImpl::add_acceptor / remove_acceptor
add_acceptor(S, tok, addr) == [S EXCEPT !.acceptors = With(@, tok, addr)]
remove_acceptor(S, tok) == [S EXCEPT !.acceptors = Without(@, tok)]

\* SocketImpl::on_acceptor_error
on_acceptor_error(S, tok, armOk) ==
    IF tok \in DOMAIN S.acceptors
    THEN LET addr == S.acceptors[tok]
             S1 == remove_acceptor(S, tok)
         IN  [S1 EXCEPT !.timers = timeout_ms(@, RebindT(tok, addr), armOk)]
    ELSE S

\* SocketImpl::on_listener_created
on_listener_created(S, addr, tok, openOk) ==
    IF openOk THEN add_acceptor(S, tok, addr) ELSE S

\* addr_parts[1] of create_connection / create_listener panics when the
\* address holds no separator.
AddrPanics(addr) == Len(split(addr)) < 2

\* SocketImpl::new for a socket of one of the types, recording or not the
\* hand-offs to its pipes.
EngineStart(types, log) ==
    /\ stype \in types
    /\ pipes = << >>
    /\ dist = {}
    /\ acceptors = << >>
    /\ idSeq = 0
    /\ timers = EmptyBag
    /\ inbox = << >>
    /\ awaiting = "none"
    /\ panicked = FALSE
    /\ sendTimeoutOpt = None
    /\ recvTimeoutOpt = None
    /\ pendingSend = None
    /\ pendingRecv = FALSE
    /\ openedSig = {}
    /\ sndSig = {}
    /\ rcvSig = {}
    /\ origins = << >>
    /\ bound = << >>
    /\ sendOwed = 0
    /\ recvOwed = 0
    /\ connOwed = 0
    /\ logging = log
    /\ nSent = 0
    /\ handedTo = [t \in 0..(MaxTokens - 1) |-> << >>]

EngineInit == EngineStart(SocketTypesEngine, FALSE)


SendKinds == { "MsgSent", "MsgNotSent" }
RecvKinds == { "MsgRecv", "MsgNotRecv" }
ConnKinds == { "Connected", "NotConnected", "Bound", "NotBound" }
Issued(op, cmds) == IF op \in cmds THEN 1 ELSE 0
CountKinds(out, kinds) == Cardinality({ i \in DOMAIN out : out[i].kind \in kinds })

optVars == << sendTimeoutOpt, recvTimeoutOpt >>
slotVars == << pendingSend, pendingRecv >>
sigVars == << openedSig, sndSig, rcvSig >>
endpointHist == << origins, bound >>
logVars == << logging, nSent, handedTo >>

\* What every handler does to the socket, the reply channel and the history.
\* send_evt / send_notify: the notification is put on the reply channel.
Step(S, out, aw, op, tok, ret) ==
    /\ Store(S)
    /\ inbox' = inbox \o out
    /\ sendOwed' = sendOwed + Issued(op, {"send"}) - CountKinds(out, SendKinds)
    /\ recvOwed' = recvOwed + Issued(op, {"recv"}) - CountKinds(out, RecvKinds)
    /\ connOwed' = connOwed + Issued(op, {"connect", "bind"}) - CountKinds(out, ConnKinds)
    /\ awaiting' = aw
    /\ UNCHANGED << stype, pipeVars, netVars >>

\* The facade is blocking: a command is issued only when none is outstanding.
CanIssue == ~panicked /\ awaiting = "none"

\* SocketFacade::connect with SocketImpl::connect; the token comes from the
\* id sequence.
connect(addr, connOk, openOk) ==
    /\ CanIssue
    /\ idSeq < MaxTokens
    /\ UNCHANGED << optVars, slotVars, sigVars, bound, logVars >>
    /\ LET tok == idSeq
           S0 == [Sock EXCEPT !.idSeq = @ + 1]
       IN  IF AddrPanics(addr)
           THEN /\ panicked' = TRUE
                /\ origins' = origins
                /\ Step(S0, << >>, "connect", "connect", Some(tok), << >>)
           ELSE LET ok == connOk /\ openOk
                    S1 == IF connOk THEN on_connected(S0, Some(addr), tok, openOk) ELSE S0
                    evt == IF ok THEN Notify("Connected") ELSE NotifyErr("NotConnected", "Io")
                IN  /\ panicked' = FALSE
                    /\ origins' = IF ok THEN With(origins, tok, addr) ELSE origins
                    /\ Step(S1, << evt >>, "connect", "connect", Some(tok), << >>)

\* SocketImpl::reconnect, run when a Reconnect timeout fires.
reconnect(t, connOk, openOk, armOk) ==
    /\ ~panicked
    /\ BagIn(t, timers)
    /\ t.kind = "Reconnect"
    /\ UNCHANGED << optVars, slotVars, sigVars, endpointHist, logVars >>
    /\ LET tok == t.tok[1]
           addr == t.addr[1]
           S0 == [Sock EXCEPT !.timers = clear_timeout(@, t)]
       IN  IF AddrPanics(addr)
           THEN /\ panicked' = TRUE
                /\ Step(S0, << >>, awaiting, "reconnect", Some(tok), << >>)
           ELSE LET ok == connOk /\ openOk
                    S1 == IF ok THEN on_connected(S0, Some(addr), tok, openOk)
                          ELSE on_pipe_error(S0, tok, armOk)
                IN  /\ panicked' = FALSE
                    /\ Step(S1, << >>, awaiting,
                            IF ok THEN "reconnect" ELSE "reconnect_failed",
                            Some(tok), << >>)

\* SocketFacade::bind with SocketImpl::bind.
bind(addr, bindOk, openOk) ==
    /\ CanIssue
    /\ idSeq < MaxTokens
    /\ UNCHANGED << optVars, slotVars, sigVars, origins, logVars >>
    /\ LET tok == idSeq
           S0 == [Sock EXCEPT !.idSeq = @ + 1]
       IN  IF AddrPanics(addr)
           THEN /\ panicked' = TRUE
                /\ bound' = bound
                /\ Step(S0, << >>, "bind", "bind", Some(tok), << >>)
           ELSE LET ok == bindOk /\ openOk
                    S1 == IF bindOk THEN on_listener_created(S0, addr, tok, openOk) ELSE S0
                    evt == IF ok THEN Notify("Bound") ELSE NotifyErr("NotBound", "Io")
                IN  /\ panicked' = FALSE
                    /\ bound' = IF ok THEN With(bound, tok, addr) ELSE bound
                    /\ Step(S1, << evt >>, "bind", "bind", Some(tok), << >>)

\* SocketImpl::rebind, run when a Rebind timeout fires.
rebind(t, bindOk, openOk, armOk) ==
    /\ ~panicked
    /\ BagIn(t, timers)
    /\ t.kind = "Rebind"
    /\ UNCHANGED << optVars, slotVars, sigVars, endpointHist, logVars >>
    /\ LET tok == t.tok[1]
           addr == t.addr[1]
           S0 == [Sock EXCEPT !.timers = clear_timeout(@, t)]
       IN  IF AddrPanics(addr)
           THEN /\ panicked' = TRUE
                /\ Step(S0, << >>, awaiting, "rebind", Some(tok), << >>)
           ELSE LET ok == bindOk /\ openOk
                    S1 == IF ok THEN on_listener_created(S0, addr, tok, openOk)
                          ELSE on_acceptor_error(S0, tok, armOk)
                IN  /\ panicked' = FALSE
                    /\ Step(S1, << >>, awaiting,
                            IF ok THEN "rebind" ELSE "rebind_failed",
                            Some(tok), << >>)

\* on_connections_accepted numbering the pipes by their count instead of
\* taking tokens from the id sequence.
RECURSIVE on_connections_accepted_counting(_, _, _)
on_connections_accepted_counting(S, opens, armOk) ==
    IF opens = << >> THEN [sock |-> S, tokens |-> << >>]
    ELSE LET tok == Cardinality(DOMAIN S.pipes)
             S1 == IF Head(opens) THEN on_connected(S, None, tok, TRUE)
                   ELSE on_pipe_error(S, tok, armOk)
             rest == on_connections_accepted_counting(S1, Tail(opens), armOk)
         IN  [sock |-> rest.sock, tokens |-> << tok >> \o rest.tokens]

\* SocketImpl::on_connections_accepted: each connection gets a fresh token
\* (on_connection_accepted); opens[i] tells whether its pipe could be opened.
RECURSIVE on_connections_accepted(_, _, _)
on_connections_accepted(S, opens, armOk) ==
    IF opens = << >> THEN [sock |-> S, tokens |-> << >>]
    ELSE LET tok == S.idSeq
             S0 == [S EXCEPT !.idSeq = @ + 1]
             S1 == IF Head(opens) THEN on_connected(S0, None, tok, TRUE)
                   ELSE on_pipe_error(S0, tok, armOk)
             rest == on_connections_accepted(S1, Tail(opens), armOk)
         IN  [sock |-> rest.sock, tokens |-> << tok >> \o rest.tokens]

BoolSeqs(n) == UNION { [1..k -> BOOLEAN] : k \in 0..n }

\* SocketImpl::acceptor_ready
acceptor_ready(tok, ok, opens, armOk) ==
    /\ tok \in DOMAIN acceptors
    /\ idSeq + Len(opens) <= MaxTokens
    /\ IF ok
       THEN LET r == on_connections_accepted(Sock, opens, armOk)
            IN  Step(r.sock, << >>, awaiting, "acceptor_ready", Some(tok), r.tokens)
       ELSE Step(on_acceptor_error(Sock, tok, armOk), << >>, awaiting,
                 "acceptor_error", Some(tok), << >>)
    /\ UNCHANGED << panicked, optVars, slotVars, sigVars, endpointHist, logVars >>

\* Pipe::ready of a registered pipe: the handshake advances on readiness.
PipeAdvance(pipe) ==
    [pipe EXCEPT !.st = CASE @ = "HandshakeTx" -> "HandshakeRx"
                          [] @ = "HandshakeRx" -> "Idle"
                          [] OTHER -> @]

\* SocketImpl::pipe_ready with Pub::ready
pipe_ready(tok, ok, armOk) ==
    /\ tok \notin DOMAIN acceptors
    /\ tok \in DOMAIN pipes
    /\ IF ok
       THEN LET p1 == PipeAdvance(pipes[tok])
            IN  /\ Step([Sock EXCEPT !.pipes[tok] = p1], << >>, awaiting,
                        "pipe_ready", Some(tok), << >>)
                /\ openedSig' = IF pipes[tok].st = "HandshakeRx"
                                THEN openedSig \cup {tok} ELSE openedSig
       ELSE /\ Step(on_pipe_error(Sock, tok, armOk), << >>, awaiting,
                    "pipe_error", Some(tok), << >>)
            /\ openedSig' = openedSig
    /\ UNCHANGED << panicked, optVars, slotVars, sndSig, rcvSig, endpointHist,
                    logVars >>

\* SocketImpl::ready
ready(tok, ok, opens, armOk) ==
    /\ ~panicked
    /\ \/ acceptor_ready(tok, ok, opens, armOk)
       \/ opens = << >> /\ pipe_ready(tok, ok, armOk)

(***************************************************************************)
(* Protocol policies.  A policy handler takes and returns the context C:   *)
(* the socket, the send and recv slots, the pipe signals still to come and *)
(* the notifications it puts on the reply channel.                         *)
(***************************************************************************)
Ctx == [sock |-> Sock, ps |-> pendingSend, pr |-> pendingRecv,
        snd |-> sndSig, rcv |-> rcvSig, out |-> << >>, handed |-> << >>]

StoreCtx(C) ==
    /\ pendingSend' = C.ps
    /\ pendingRecv' = C.pr
    /\ sndSig' = C.snd
    /\ rcvSig' = C.rcv

\* The record of the hand-offs of a handler: n is the number of SendMsg
\* commands processed so far, the ordinal of the message handed.
Log(C, n) ==
    /\ logging' = logging
    /\ nSent' = IF logging THEN n ELSE nSent
    /\ handedTo' =
          IF logging
          THEN [t \in DOMAIN handedTo |->
                  handedTo[t] \o
                  [i \in 1..Cardinality({ j \in DOMAIN C.handed : C.handed[j] = t }) |-> n]]
          ELSE handedTo

\* The pipes of the distribution set that are still registered.
DistPipes(S) == S.dist \cap DOMAIN S.pipes

\* Pipe::send_nb: the message is handed to the pipe, which will signal
\* MsgSnd once it has written it.
send_nb(C, tok, msg) ==
    [C EXCEPT !.snd = @ \cup { tok }, !.handed = Append(@, tok)]

\* send_nb on each pipe of toks.
RECURSIVE HandTo(_, _, _)
HandTo(C, toks, msg) ==
    IF toks = {} THEN C
    ELSE LET tok == CHOOSE t \in toks : TRUE
         IN  HandTo(send_nb(C, tok, msg), toks \ { tok }, msg)

\* Mutant of Pub::broadcast: every registered pipe is written to, opened or
\* not.
broadcast_all_pipes(C, msg) == HandTo(C, DOMAIN C.sock.pipes, msg)

\* Pub::broadcast: for tok in dist, pipes.get_mut(tok).map(send_nb).
RECURSIVE BroadcastOver(_, _, _)
BroadcastOver(C, rest, msg) ==
    IF rest = {} THEN C
    ELSE LET tok == CHOOSE t \in rest : TRUE
             C1 == IF tok \in DOMAIN C.sock.pipes THEN send_nb(C, tok, msg) ELSE C
         IN  BroadcastOver(C1, rest \ { tok }, msg)

broadcast(C, msg) == BroadcastOver(C, C.sock.dist, msg)

\* Pub::send
Pub_send(C, msg) ==
    [broadcast(C, msg) EXCEPT !.sock.timers = clear_timeout(@, CancelSendT),
                              !.out = Append(@, Notify("MsgSent"))]

\* Pub::recv: the timeout handle is dropped without being cleared.
Pub_recv(C) ==
    [C EXCEPT !.out = Append(@, NotifyErr("MsgNotRecv", "Other"))]

\* Pub::on_send_done, on_send_timeout, on_recv_done, on_recv_timeout
Pub_on_send_done(C, tok) == C
Pub_on_send_timeout(C) == C
Pub_on_recv_done(C, tok) == C
Pub_on_recv_timeout(C) == C

\* Pub::on_pipe_opened
Pub_on_pipe_opened(C, tok) == [C EXCEPT !.sock.dist = @ \cup {tok}]

\* Push (spec 4.3): send goes to one opened pipe, or is parked on the send
\* slot until a peer is there or the timer fires.
Push_send(C, msg) ==
    IF DistPipes(C.sock) # {}
    THEN LET tok == CHOOSE t \in DistPipes(C.sock) : TRUE
         IN  [HandTo(C, {tok}, msg) EXCEPT
                       !.ps = Some([msg |-> msg, on |-> Some(tok)])]
    ELSE [C EXCEPT !.ps = Some([msg |-> msg, on |-> None])]

Push_recv(C) ==
    [C EXCEPT !.sock.timers = clear_timeout(@, CancelRecvT),
              !.out = Append(@, NotifyErr("MsgNotRecv", "Other"))]

Push_on_pipe_opened(C, tok) ==
    LET C1 == Pub_on_pipe_opened(C, tok)
    IN  IF C.ps # None /\ C.ps[1].on = None /\ tok \in DOMAIN C.sock.pipes
        THEN [HandTo(C1, {tok}, C.ps[1].msg) EXCEPT
                        !.ps = Some([msg |-> C.ps[1].msg, on |-> Some(tok)])]
        ELSE C1

Push_on_send_done(C, tok) ==
    IF C.ps # None /\ C.ps[1].on = Some(tok)
    THEN [C EXCEPT !.sock.timers = clear_timeout(@, CancelSendT),
                   !.ps = None,
                   !.out = Append(@, Notify("MsgSent"))]
    ELSE C

Push_on_send_timeout(C) ==
    IF C.ps # None
    THEN [C EXCEPT !.ps = None,
                   !.out = Append(@, NotifyErr("MsgNotSent", "TimedOut"))]
    ELSE C

\* Pull (spec 4.3): recv is parked on the recv slot until a pipe delivers a
\* message or the timer fires.
Pull_send(C, msg) ==
    [C EXCEPT !.sock.timers = clear_timeout(@, CancelSendT),
              !.out = Append(@, NotifyErr("MsgNotSent", "Other"))]

Pull_recv(C) ==
    [C EXCEPT !.pr = TRUE, !.rcv = @ \cup DistPipes(C.sock)]

Pull_on_pipe_opened(C, tok) ==
    LET C1 == Pub_on_pipe_opened(C, tok)
    IN  IF C.pr /\ tok \in DOMAIN C.sock.pipes
        THEN [C1 EXCEPT !.rcv = @ \cup {tok}]
        ELSE C1

Pull_on_recv_done(C, tok) ==
    IF C.pr
    THEN [C EXCEPT !.sock.timers = clear_timeout(@, CancelRecvT),
                   !.pr = FALSE,
                   !.out = Append(@, Notify("MsgRecv"))]
    ELSE C

Pull_on_recv_timeout(C) ==
    IF C.pr
    THEN [C EXCEPT !.pr = FALSE,
                   !.out = Append(@, NotifyErr("MsgNotRecv", "TimedOut"))]
    ELSE C

\* The Protocol trait object of the socket: dispatch on the socket type.
protocol_send(C, msg) ==
    CASE stype = "Pub" -> Pub_send(C, msg)
      [] stype = "Push" -> Push_send(C, msg)
      [] OTHER -> Pull_send(C, msg)

protocol_recv(C) ==
    CASE stype = "Pub" -> Pub_recv(C)
      [] stype = "Push" -> Push_recv(C)
      [] OTHER -> Pull_recv(C)

protocol_on_pipe_opened(C, tok) ==
    CASE stype = "Pub" -> Pub_on_pipe_opened(C, tok)
      [] stype = "Push" -> Push_on_pipe_opened(C, tok)
      [] OTHER -> Pull_on_pipe_opened(C, tok)

protocol_on_send_done(C, tok) ==
    CASE stype = "Push" -> Push_on_send_done(C, tok)
      [] OTHER -> Pub_on_send_done(C, tok)

protocol_on_send_timeout(C) ==
    CASE stype = "Push" -> Push_on_send_timeout(C)
      [] OTHER -> Pub_on_send_timeout(C)

protocol_on_recv_done(C, tok) ==
    CASE stype = "Pull" -> Pull_on_recv_done(C, tok)
      [] OTHER -> Pub_on_recv_done(C, tok)

protocol_on_recv_timeout(C) ==
    CASE stype = "Pull" -> Pull_on_recv_timeout(C)
      [] OTHER -> Pub_on_recv_timeout(C)

\* SocketImpl::send: the CancelSend timeout is armed, and only then is the
\* message handed to the protocol.
SocketImpl_send(C, msg, armOk) ==
    IF TimeoutOk(C.sock.timers, armOk)
    THEN protocol_send([C EXCEPT !.sock.timers = timeout_ms(@, CancelSendT, armOk)], msg)
    ELSE C

\* SocketImpl::recv
SocketImpl_recv(C, armOk) ==
    IF TimeoutOk(C.sock.timers, armOk)
    THEN protocol_recv([C EXCEPT !.sock.timers = timeout_ms(@, CancelRecvT, armOk)])
    ELSE C

\* Mutant of SocketImpl::on_send_timeout: the timeout is not passed on.
SocketImpl_on_send_timeout_dropped(C) == C

\* SocketImpl::on_send_timeout / on_recv_timeout
SocketImpl_on_send_timeout(C) == protocol_on_send_timeout(C)
SocketImpl_on_recv_timeout(C) == protocol_on_recv_timeout(C)

\* SocketFacade::send_msg with SocketImpl::send.
send(msg, armOk) ==
    /\ CanIssue
    /\ logging => nSent < MaxSends
    /\ LET C == SocketImpl_send(Ctx, msg, armOk)
       IN  /\ Step(C.sock, C.out, "send", "send", None, << >>)
           /\ StoreCtx(C)
           /\ Log(C, nSent + 1)
    /\ UNCHANGED << panicked, optVars, openedSig, endpointHist >>

\* SocketFacade::recv_msg with SocketImpl::recv.
recv(armOk) ==
    /\ CanIssue
    /\ LET C == SocketImpl_recv(Ctx, armOk)
       IN  /\ Step(C.sock, C.out, "recv", "recv", None, << >>)
           /\ StoreCtx(C)
           /\ Log(C, nSent)
    /\ UNCHANGED << panicked, optVars, openedSig, endpointHist >>

\* SocketFacade::set_send_timeout / set_recv_timeout (spec 6): the option is
\* recorded and acknowledged.
set_option(which, d) ==
    /\ CanIssue
    /\ sendTimeoutOpt' = IF which = "SendTimeout" THEN Some(d) ELSE sendTimeoutOpt
    /\ recvTimeoutOpt' = IF which = "RecvTimeout" THEN Some(d) ELSE recvTimeoutOpt
    /\ Step(Sock, << Notify("OptionSet") >>, "set_option", "set_option", None, << >>)
    /\ UNCHANGED << panicked, slotVars, sigVars, endpointHist, logVars >>

\* A CancelSend timeout fires: SocketImpl::on_send_timeout.
on_send_timeout ==
    /\ ~panicked
    /\ BagIn(CancelSendT, timers)
    /\ LET C0 == [Ctx EXCEPT !.sock.timers = clear_timeout(@, CancelSendT)]
           C == SocketImpl_on_send_timeout(C0)
       IN  /\ Step(C.sock, C.out, awaiting,
                   IF pendingSend # None THEN "send_timeout_pending" ELSE "send_timeout_idle",
                   None, << >>)
           /\ StoreCtx(C)
           /\ Log(C, nSent)
    /\ UNCHANGED << panicked, optVars, openedSig, endpointHist >>

\* A CancelRecv timeout fires: SocketImpl::on_recv_timeout.
on_recv_timeout ==
    /\ ~panicked
    /\ BagIn(CancelRecvT, timers)
    /\ LET C0 == [Ctx EXCEPT !.sock.timers = clear_timeout(@, CancelRecvT)]
           C == SocketImpl_on_recv_timeout(C0)
       IN  /\ Step(C.sock, C.out, awaiting,
                   IF pendingRecv THEN "recv_timeout_pending" ELSE "recv_timeout_idle",
                   None, << >>)
           /\ StoreCtx(C)
           /\ Log(C, nSent)
    /\ UNCHANGED << panicked, optVars, openedSig, endpointHist >>

\* PipeEvtSignal::Opened reaches the socket: Protocol::on_pipe_opened.
on_pipe_opened(tok) ==
    /\ ~panicked
    /\ tok \in openedSig
    /\ openedSig' = openedSig \ {tok}
    /\ LET C == protocol_on_pipe_opened(Ctx, tok)
       IN  /\ Step(C.sock, C.out, awaiting, "on_pipe_opened", Some(tok), << >>)
           /\ StoreCtx(C)
           /\ Log(C, nSent)
    /\ UNCHANGED << panicked, optVars, endpointHist >>

\* PipeEvtSignal::MsgSnd reaches the socket: Protocol::on_send_done.
on_send_done(tok) ==
    /\ ~panicked
    /\ tok \in sndSig
    /\ LET C0 == [Ctx EXCEPT !.snd = @ \ {tok}]
           C == protocol_on_send_done(C0, tok)
       IN  /\ Step(C.sock, C.out, awaiting,
                   IF pendingSend # None THEN "send_done_pending" ELSE "send_done_idle",
                   Some(tok), << >>)
           /\ StoreCtx(C)
           /\ Log(C, nSent)
    /\ UNCHANGED << panicked, optVars, openedSig, endpointHist >>

\* PipeEvtSignal::MsgRcv reaches the socket: Protocol::on_recv_done.
on_recv_done(tok) ==
    /\ ~panicked
    /\ tok \in rcvSig
    /\ LET C0 == [Ctx EXCEPT !.rcv = @ \ {tok}]
           C == protocol_on_recv_done(C0, tok)
       IN  /\ Step(C.sock, C.out, awaiting,
                   IF pendingRecv THEN "recv_done_pending" ELSE "recv_done_idle",
                   Some(tok), << >>)
           /\ StoreCtx(C)
           /\ Log(C, nSent)
    /\ UNCHANGED << panicked, optVars, openedSig, endpointHist >>

\* The facade's evt_receiver.recv(): the blocked call takes one notification
\* from the reply channel, or fails once the engine is gone.
facade_return ==
    /\ awaiting # "none"
    /\ \/ /\ inbox # << >>
          /\ inbox' = Tail(inbox)
       \/ /\ inbox = << >>
          /\ panicked
          /\ inbox' = inbox
    /\ awaiting' = "none"
    /\ UNCHANGED << stype, pipes, dist, acceptors, idSeq, timers, panicked,
                    optVars, slotVars, sigVars, endpointHist, logVars,
                    sendOwed, recvOwed, connOwed, pipeVars, netVars >>

\* The pipe state machine is not part of this specification.
PipeIdle ==
    /\ pstate = "Initial"
    /\ ptype = "Pair"
    /\ peerType = "Pair"
    /\ stream = << >>
    /\ wrote = << >>
    /\ registry = None
    /\ signals = << >>
    /\ bodies = << >>
    /\ rxBytes = None

Init == EngineInit /\ PipeIdle /\ NetIdle

Next ==
    \/ \E a \in Addrs, c, o \in BOOLEAN : connect(a, c, o)
    \/ \E a \in Addrs, c, o \in BOOLEAN : bind(a, c, o)
    \/ \E t \in BagToSet(timers), c, o, k \in BOOLEAN : reconnect(t, c, o, k)
    \/ \E t \in BagToSet(timers), c, o, k \in BOOLEAN : rebind(t, c, o, k)
    \/ \E tok \in 0..(MaxTokens - 1), ok, k \in BOOLEAN, opens \in BoolSeqs(MaxAccept) :
          ready(tok, ok, opens, k)
    \/ \E m \in Msgs, k \in BOOLEAN : send(m, k)
    \/ \E k \in BOOLEAN : recv(k)
    \/ \E w \in { "SendTimeout", "RecvTimeout" }, d \in Timeouts :
          set_option(w, d)
    \/ on_send_timeout
    \/ on_recv_timeout
    \/ \E tok \in openedSig : on_pipe_opened(tok)
    \/ \E tok \in sndSig : on_send_done(tok)
    \/ \E tok \in rcvSig : on_recv_done(tok)
    \/ facade_return

Spec == Init /\ [][Next]_vars

\* The Pub socket alone, the hand-offs of its first sends recorded.  Only
\* what src/ holds takes part: no option is set, and the handlers that a Pub
\* socket never enables (no CancelSend timeout outlives Pub::send, no pipe
\* of a Pub socket receives) are left out.
InitPub == EngineStart({ "Pub" }, TRUE) /\ PipeIdle /\ NetIdle

NextPub ==
    \/ \E a \in Addrs, c, o \in BOOLEAN : connect(a, c, o)
    \/ \E a \in Addrs, c, o \in BOOLEAN : bind(a, c, o)
    \/ \E t \in BagToSet(timers), c, o, k \in BOOLEAN : reconnect(t, c, o, k)
    \/ \E t \in BagToSet(timers), c, o, k \in BOOLEAN : rebind(t, c, o, k)
    \/ \E tok \in 0..(MaxTokens - 1), ok, k \in BOOLEAN, opens \in BoolSeqs(MaxAccept) :
          ready(tok, ok, opens, k)
    \/ \E m \in Msgs, k \in BOOLEAN : send(m, k)
    \/ \E k \in BOOLEAN : recv(k)
    \/ on_recv_timeout
    \/ \E tok \in openedSig : on_pipe_opened(tok)
    \/ \E tok \in sndSig : on_send_done(tok)
    \/ facade_return

SpecPub == InitPub /\ [][NextPub]_vars

(***************************************************************************)
(* The pipe state machine of pipe.rs: handshake, then framed receive.      *)
(* A pipe is the record of its state name, the bytes of its connection     *)
(* (conn: sent by the peer and not yet read; wrote: written by the pipe),  *)
(* its event loop registration, the signals it sent and the bytes          *)
(* read_handshake took from the connection.                                *)
(***************************************************************************)
MaxMsgs == 2          \* messages the peer frames
MaxBodyLen == 1       \* bytes in a message body
LenCap == 65536       \* lengths decoded from a prefix saturate here

BodyBytes == { 1 }

SocketTypes == { "Pair", "Pub", "Sub", "Req", "Rep", "Push", "Pull",
                 "Surveyor", "Respondent", "Bus" }

\* SocketType::id
id(t) ==
    CASE t = "Pair" -> 16
      [] t = "Pub" -> 32
      [] t = "Sub" -> 33
      [] t = "Req" -> 48
      [] t = "Rep" -> 49
      [] t = "Push" -> 80
      [] t = "Pull" -> 81
      [] t = "Surveyor" -> 98
      [] t = "Respondent" -> 99
      [] t = "Bus" -> 112

\* Mutant of SocketType::peer: the Respondent arm names itself.
peer_respondent_itself(t) ==
    CASE t = "Pair" -> "Pair"
      [] t = "Pub" -> "Sub"
      [] t = "Sub" -> "Pub"
      [] t = "Req" -> "Rep"
      [] t = "Rep" -> "Req"
      [] t = "Push" -> "Pull"
      [] t = "Pull" -> "Push"
      [] t = "Surveyor" -> "Respondent"
      [] t = "Respondent" -> "Respondent"
      [] t = "Bus" -> "Bus"

\* SocketType::peer
peer(t) ==
    CASE t = "Pair" -> "Pair"
      [] t = "Pub" -> "Sub"
      [] t = "Sub" -> "Pub"
      [] t = "Req" -> "Rep"
      [] t = "Rep" -> "Req"
      [] t = "Push" -> "Pull"
      [] t = "Pull" -> "Push"
      [] t = "Surveyor" -> "Respondent"
      [] t = "Respondent" -> "Surveyor"
      [] t = "Bus" -> "Bus"

\* SocketType::matches
matches(a, b) == peer(a) = b /\ peer(b) = a

Min(a, b) == IF a <= b THEN a ELSE b

Take(q, n) == SubSeq(q, 1, Min(n, Len(q)))
Drop(q, n) == SubSeq(q, Min(n, Len(q)) + 1, Len(q))
Zeros(n) == [i \in 1..n |-> 0]

\* write_u16::<LittleEndian>
write_u16_little_endian(v) == << v % 256, (v \div 256) % 256 >>

\* write_u16::<BigEndian>
write_u16(v) == << (v \div 256) % 256, v % 256 >>

\* write_u64::<BigEndian> of a length below 2^24: the five high bytes are zero.
write_u64(v) == << 0, 0, 0, 0, 0, (v \div 65536) % 256, (v \div 256) % 256, v % 256 >>

\* read_u64::<BigEndian>, saturating at LenCap.
RECURSIVE read_u64_acc(_, _)
read_u64_acc(bytes, acc) ==
    IF bytes = << >> THEN acc
    ELSE read_u64_acc(Tail(bytes), Min(acc * 256 + Head(bytes), LenCap))

read_u64(bytes) == read_u64_acc(bytes, 0)

\* The handshake: Zero, 'S', 'P', Version, Proto, Rsvd.
create_handshake(protocol_id) == << 0, 83, 80, 0 >> \o write_u16(protocol_id) \o write_u16(0)

\* Connection::try_read into a buffer of cap bytes: at most n bytes arrive.
try_read(conn, cap, n) ==
    [data |-> Take(conn, Min(n, cap)), rest |-> Drop(conn, Min(n, cap))]

\* Pipe::new
Pipe_new == [state |-> "Initial", conn |-> << >>, wrote |-> << >>,
             registry |-> None, signals |-> << >>, rx |-> None]

\* mio::PollOpt::edge() | mio::PollOpt::oneshot()
EdgeOneshot == { "edge", "oneshot" }

\* The entry of the stream in the readiness registry: the interest beside
\* error and hup, the poll options, whether the one-shot registration is
\* still armed and, as history, the calls of register and whether
\* reregister was called.
Registration(P) ==
    IF P.registry = None
    THEN [interest |-> "none", poll |-> {}, armed |-> FALSE,
          registered |-> 0, reregistered |-> FALSE]
    ELSE P.registry[1]

\* EventLoop::register
EventLoop_register(P, event, poll) ==
    [P EXCEPT !.registry =
        Some([Registration(P) EXCEPT !.interest = event, !.poll = poll,
                                     !.armed = TRUE, !.registered = @ + 1])]

\* EventLoop::reregister
EventLoop_reregister(P, event, poll) ==
    [P EXCEPT !.registry =
        Some([Registration(P) EXCEPT !.interest = event, !.poll = poll,
                                     !.armed = TRUE, !.reregistered = TRUE])]

\* register_for_event: error | hup | event, edge | oneshot, reregister
register_for_event(P, event) == EventLoop_reregister(P, event, EdgeOneshot)

\* Mutant of Initial::register_for_write: the stream is re-registered.
Initial_register_for_write_again(P) == register_for_event(P, "writable")

\* Initial::register_for_write: error | hup | writable, edge | oneshot,
\* register
Initial_register_for_write(P) == EventLoop_register(P, "writable", EdgeOneshot)

\* on_error starting the pipe over instead of ending it.
on_error_restarting(P) == [P EXCEPT !.state = "Initial"]

\* PipeState::on_error, and the default open / ready / recv
on_error(P) == [P EXCEPT !.state = "Dead"]

\* transition_if_ok / no_transition_if_ok
transition_if_ok(P, ok, to) == IF ok THEN [P EXCEPT !.state = to] ELSE on_error(P)

\* no_transition_if_ok that overlooks the error.
no_transition_whatever(P, ok) == P

no_transition_if_ok(P, ok) == IF ok THEN P ELSE on_error(P)

\* Initial::open
Initial_open(P, regOk) ==
    transition_if_ok(IF regOk THEN Initial_register_for_write(P) ELSE P,
                     regOk, "HandshakeTx")

\* HandshakeTx::check_sent_handshake
check_sent_handshake(written) == written = Some(8)

\* HandshakeTx::write_handshake: n bytes are taken by the connection
write_handshake(P, self_id, n, ioOk) ==
    LET w == IF ioOk THEN Take(create_handshake(self_id), n) ELSE << >>
    IN  [pipe |-> [P EXCEPT !.wrote = P.wrote \o w],
         ok |-> ioOk /\ check_sent_handshake(Some(Len(w)))]

\* HandshakeTx::ready
HandshakeTx_ready(P, self_id, events, n, ioOk, regOk) ==
    IF "writable" \in events
    THEN LET w == write_handshake(P, self_id, n, ioOk)
             res == w.ok /\ regOk
         IN  transition_if_ok(IF res THEN register_for_event(w.pipe, "readable")
                              ELSE w.pipe,
                              res, "HandshakeRx")
    ELSE no_transition_if_ok(IF regOk THEN register_for_event(P, "writable") ELSE P,
                             regOk)

\* Mutant of check_received_handshake: only the 'S' 'P' header is compared.
check_received_handshake_header(handshake, protocol_peer_id) ==
    \A i \in 1..4 : handshake[i] = create_handshake(protocol_peer_id)[i]

\* HandshakeRx::check_received_handshake
check_received_handshake(handshake, protocol_peer_id) ==
    LET expected_handshake == create_handshake(protocol_peer_id)
    IN  \A i \in 1..Min(Len(handshake), Len(expected_handshake)) :
            handshake[i] = expected_handshake[i]

\* HandshakeRx::read_handshake: try_read fills the front of a zeroed buffer
\* of 8 bytes and the number of bytes read is not looked at.
read_handshake(P, protocol_peer_id, n, ioOk) ==
    LET r == try_read(P.conn, 8, n)
        handshake == r.data \o Zeros(8 - Len(r.data))
    IN  IF ioOk
        THEN [pipe |-> [P EXCEPT !.conn = r.rest, !.rx = Some(r.data)],
              ok |-> check_received_handshake(handshake, protocol_peer_id)]
        ELSE [pipe |-> P, ok |-> FALSE]

\* HandshakeRx::ready
HandshakeRx_ready(P, protocol_peer_id, events, n, ioOk, regOk) ==
    IF "readable" \in events
    THEN LET r == read_handshake(P, protocol_peer_id, n, ioOk)
             res == r.ok /\ regOk
         IN  transition_if_ok(IF res THEN register_for_event(r.pipe, "none")
                              ELSE r.pipe,
                              res, "Idle")
    ELSE no_transition_if_ok(IF regOk THEN register_for_event(P, "readable") ELSE P,
                             regOk)

\* RecvOperation::new.  buffer holds the bytes read into the payload vector
\* so far; the vector's remaining bytes are zero until they are read.
RecvOperation_new ==
    [step |-> "Prefix", read |-> 0, prefix |-> Zeros(8), msg_len |-> 0,
     buffer |-> None]

\* RecvOperationStep::next
RecvOperationStep_next(step) ==
    CASE step = "Prefix" -> "Payload"
      [] step = "Payload" -> "Done"
      [] step = "Done" -> "Done"

\* step_forward that leaves the cursor where it is.
step_forward_keeping_cursor(op) == [op EXCEPT !.step = RecvOperationStep_next(op.step)]

\* RecvOperation::step_forward
step_forward(op) == [op EXCEPT !.step = RecvOperationStep_next(op.step), !.read = 0]

\* recv_buffer taking a read of zero bytes for the end of the stream.
recv_buffer_zero_as_eof(conn, cap, n, ioOk) ==
    IF cap > 0
    THEN IF ioOk /\ try_read(conn, cap, n).data # << >>
         THEN [ok |-> TRUE, data |-> try_read(conn, cap, n).data,
               rest |-> try_read(conn, cap, n).rest]
         ELSE [ok |-> FALSE, data |-> << >>, rest |-> conn]
    ELSE [ok |-> TRUE, data |-> << >>, rest |-> conn]

\* RecvOperation::recv_buffer: an empty buffer reads nothing, would-block
\* reads 0 bytes.
recv_buffer(conn, cap, n, ioOk) ==
    IF cap > 0
    THEN IF ioOk
         THEN [ok |-> TRUE, data |-> try_read(conn, cap, n).data,
               rest |-> try_read(conn, cap, n).rest]
         ELSE [ok |-> FALSE, data |-> << >>, rest |-> conn]
    ELSE [ok |-> TRUE, data |-> << >>, rest |-> conn]

\* RecvOperation::recv, the Payload step.  buffer.take().unwrap() panics
\* when an earlier failed read has left the buffer taken.
RecvOperation_payload(op, conn, n, ioOk) ==
    LET r == recv_buffer(conn, op.msg_len - op.read, n, ioOk)
        read == op.read + Len(r.data)
        buffer == op.buffer[1] \o r.data
    IN  IF op.buffer = None
        THEN [op |-> op, conn |-> conn, res |-> "Panic", msg |-> << >>]
        ELSE IF ~r.ok
        THEN [op |-> [op EXCEPT !.buffer = None], conn |-> r.rest,
              res |-> "Err", msg |-> << >>]
        ELSE IF read = op.msg_len
        THEN [op |-> step_forward([op EXCEPT !.buffer = None]), conn |-> r.rest,
              res |-> "Some", msg |-> buffer]
        ELSE [op |-> [op EXCEPT !.read = read, !.buffer = Some(buffer)],
              conn |-> r.rest, res |-> "None", msg |-> << >>]

\* RecvOperation::recv
RecvOperation_recv(op, conn, n1, ok1, n2, ok2) ==
    IF op.step = "Prefix"
    THEN LET r == recv_buffer(conn, 8 - op.read, n1, ok1)
             read == op.read + Len(r.data)
             prefix == Take(op.prefix, op.read) \o r.data \o Drop(op.prefix, read)
             got == [op EXCEPT !.read = read, !.prefix = prefix]
         IN  IF ~r.ok
             THEN [op |-> op, conn |-> conn, res |-> "Err", msg |-> << >>]
             ELSE IF read = 8
             THEN RecvOperation_payload(
                      [step_forward(got) EXCEPT !.msg_len = read_u64(prefix),
                                                !.buffer = Some(<< >>)],
                      r.rest, n2, ok2)
             ELSE [op |-> got, conn |-> r.rest, res |-> "None", msg |-> << >>]
    ELSE IF op.step = "Payload"
    THEN RecvOperation_payload(op, conn, n2, ok2)
    ELSE [op |-> op, conn |-> conn, res |-> "Err", msg |-> << >>]

\* Idle::recv: a new RecvOperation for every call, dropped when the call
\* returns.
Idle_recv(P, n1, ok1, n2, ok2) ==
    LET r == RecvOperation_recv(RecvOperation_new, P.conn, n1, ok1, n2, ok2)
    IN  CASE r.res = "Some" ->
               [P EXCEPT !.conn = r.conn,
                         !.signals = Append(@, [kind |-> "MsgRcv", body |-> r.msg])]
          [] r.res = "None" -> [P EXCEPT !.conn = r.conn]
          [] r.res = "Err" -> on_error([P EXCEPT !.conn = r.conn])

\* Idle::ready
Idle_ready(P) == P

\* PipeState::open of the current state
PipeState_open(P, regOk) ==
    IF P.state = "Initial" THEN Initial_open(P, regOk) ELSE on_error(P)

\* PipeState::ready of the current state
PipeState_ready(P, self_id, protocol_peer_id, events, n, ioOk, regOk) ==
    CASE P.state = "HandshakeTx" -> HandshakeTx_ready(P, self_id, events, n, ioOk, regOk)
      [] P.state = "HandshakeRx" ->
            HandshakeRx_ready(P, protocol_peer_id, events, n, ioOk, regOk)
      [] P.state = "Idle" -> Idle_ready(P)
      [] OTHER -> on_error(P)

\* PipeState::recv of the current state
PipeState_recv(P, n1, ok1, n2, ok2) ==
    CASE P.state \in { "Initial", "HandshakeTx", "HandshakeRx" } -> P
      [] P.state = "Idle" -> Idle_recv(P, n1, ok1, n2, ok2)
      [] OTHER -> on_error(P)

\* The pipe held in the variables.
ThePipe == [state |-> pstate, conn |-> stream, wrote |-> wrote,
            registry |-> registry, signals |-> signals, rx |-> rxBytes]

\* The pipe is put back in the variables.
StorePipe(P) ==
    /\ pstate' = P.state
    /\ stream' = P.conn
    /\ wrote' = P.wrote
    /\ registry' = P.registry
    /\ signals' = P.signals
    /\ rxBytes' = P.rx
    /\ UNCHANGED << ptype, peerType, bodies >>

\* Pipe::on_state_transition
on_state_transition(P) ==
    /\ StorePipe(P)
    /\ UNCHANGED << engineVars, netVars >>

\* Pipe::open
Pipe_open(regOk) == on_state_transition(PipeState_open(ThePipe, regOk))

\* Pipe::ready: the event loop delivers an event the pipe is registered for
\* (or only hup / error); the registration is oneshot.
Pipe_ready(events, n, ioOk, regOk) ==
    /\ registry # None
    /\ registry[1].armed
    /\ events \subseteq ({ registry[1].interest } \ { "none" })
    /\ on_state_transition(
           PipeState_ready([ThePipe EXCEPT !.registry[1].armed = FALSE],
                           id(ptype), id(peer(ptype)), events, n, ioOk, regOk))

\* Pipe::recv
Pipe_recv(n1, ok1, n2, ok2) ==
    on_state_transition(PipeState_recv(ThePipe, n1, ok1, n2, ok2))

\* Message bodies the peer sends.
Bodies == UNION { [1..k -> BodyBytes] : k \in 0..MaxBodyLen }

\* The frame of a message: 8-byte big-endian length, then the body.
Frame(body) == write_u64(Len(body)) \o body

\* The peer, having received the pipe's handshake, sends a framed message.
peer_write(body) ==
    /\ pstate \in { "HandshakeRx", "Idle" }
    /\ matches(ptype, peerType)
    /\ Len(bodies) < MaxMsgs
    /\ stream' = stream \o Frame(body)
    /\ bodies' = Append(bodies, body)
    /\ UNCHANGED << pstate, ptype, peerType, wrote, registry, signals, rxBytes,
                    engineVars, netVars >>

\* The engine is not part of this specification.
EngineIdle == EngineInit /\ stype = "Pub"

\* A new pipe of a socket of any type; the handshake of a peer of any type
\* is on its way.
PipeInit ==
    /\ ptype \in SocketTypes
    /\ peerType \in SocketTypes
    /\ pstate = Pipe_new.state
    /\ stream = create_handshake(id(peerType))
    /\ wrote = Pipe_new.wrote
    /\ registry = Pipe_new.registry
    /\ signals = Pipe_new.signals
    /\ rxBytes = Pipe_new.rx
    /\ bodies = << >>

InitPipe == EngineIdle /\ PipeInit /\ NetIdle

\* Bytes a read of at most cap bytes can return: what the stream holds.
ReadCounts(cap) == 0..Min(cap, Len(stream))

\* What the second read of a recv call can return: it happens only when the
\* first read completed the prefix.
SecondReads(n1, ok1) ==
    IF pstate = "Idle" /\ ok1 /\ n1 = 8
    THEN (0..(Len(stream) - 8)) \X BOOLEAN
    ELSE { << 0, TRUE >> }

NextPipe ==
    \/ \E regOk \in BOOLEAN : Pipe_open(regOk)
    \/ \E events \in SUBSET { "readable", "writable" },
          n \in (IF pstate = "HandshakeTx" THEN 0..8 ELSE ReadCounts(8)),
          ioOk, regOk \in BOOLEAN : Pipe_ready(events, n, ioOk, regOk)
    \/ \E n1 \in ReadCounts(8), ok1 \in BOOLEAN :
          \E r2 \in SecondReads(n1, ok1) : Pipe_recv(n1, ok1, r2[1], r2[2])
    \/ \E body \in Bodies : peer_write(body)

SpecPipe == InitPipe /\ [][NextPipe]_vars

(***************************************************************************)
(* The pipe owned by a socket: the pipe of pipe.rs, connected to an origin *)
(* address and opened, is held by a Pub socket under token 0.              *)
(* nodes["socket"] is the socket (its pipes, distribution set, acceptors   *)
(* and timers); the state of the pipe itself is in the pipe's variables.   *)
(***************************************************************************)
OwnedPeerTypes == { "Sub", "Pull" }

\* Pub::ready: the pipe of the token is readied; Pipe::ready returns
\* nothing, and nothing is returned.
Pub_ready(S, P, tok, events, n, ioOk, regOk) ==
    IF tok \in DOMAIN S.pipes
    THEN [pipe |-> PipeState_ready(P, id("Pub"), id(peer("Pub")), events, n, ioOk, regOk),
          res |-> "Ok"]
    ELSE [pipe |-> P, res |-> "Ok"]

\* SocketImpl::pipe_ready: an error returned by Protocol::ready is handled by
\* on_pipe_error.
SocketImpl_pipe_ready(S, P, tok, events, n, ioOk, regOk, armOk) ==
    LET r == Pub_ready(S, P, tok, events, n, ioOk, regOk)
    IN  [pipe |-> r.pipe,
         sock |-> IF r.res = "Err" THEN on_pipe_error(S, tok, armOk) ELSE S]

\* The event loop delivers a readiness event of the pipe to its socket.
owned_pipe_ready(events, n, ioOk, regOk, armOk) ==
    /\ registry # None
    /\ registry[1].armed
    /\ events \subseteq ({ registry[1].interest } \ { "none" })
    /\ LET r == SocketImpl_pipe_ready(nodes["socket"],
                                      [ThePipe EXCEPT !.registry[1].armed = FALSE],
                                      0, events, n, ioOk, regOk, armOk)
       IN  /\ StorePipe(r.pipe)
           /\ nodes' = [nodes EXCEPT !["socket"] = r.sock]
    /\ UNCHANGED << wire, results, engineVars >>

\* The state after a successful Connect: SocketImpl::on_connected has made
\* the pipe, opened it and added it to the protocol.
InitOwned ==
    /\ EngineIdle
    /\ ptype = "Pub"
    /\ peerType \in OwnedPeerTypes
    /\ LET P == Initial_open([Pipe_new EXCEPT !.conn = create_handshake(id(peerType))],
                             TRUE)
       IN  /\ pstate = P.state
           /\ stream = P.conn
           /\ wrote = P.wrote
           /\ registry = P.registry
           /\ signals = P.signals
           /\ rxBytes = P.rx
    /\ bodies = << >>
    /\ nodes = [name \in { "socket" } |->
                  on_connected([pipes |-> << >>, dist |-> {}, acceptors |-> << >>,
                                timers |-> EmptyBag, idSeq |-> 1],
                               Some(AddrTcp), 0, TRUE)]
    /\ wire = << >>
    /\ results = << >>

NextOwned ==
    \/ \E events \in SUBSET { "readable", "writable" },
          n \in (IF pstate = "HandshakeTx" THEN 0..8 ELSE ReadCounts(8)),
          ioOk, regOk, armOk \in BOOLEAN : owned_pipe_ready(events, n, ioOk, regOk, armOk)
    \/ \E n1 \in ReadCounts(8), ok1 \in BOOLEAN :
          \E r2 \in SecondReads(n1, ok1) : Pipe_recv(n1, ok1, r2[1], r2[2])
    \/ \E body \in Bodies : peer_write(body)

\* The event loop goes on delivering events and commands.
SpecOwned == InitOwned /\ [][NextOwned]_vars /\ WF_vars(NextOwned)

(***************************************************************************)
(* Sockets joined by pipes.  A socket is the record of its policy's state; *)
(* a pipe from a to b is the queue wire[<< a, b >>] of the messages a      *)
(* wrote and b has not read yet (within one pipe, message boundaries and   *)
(* order are kept).  A message is its header, its body and, as history,    *)
(* the ordinal its first sender gave it.  A policy handler takes and       *)
(* returns the socket record N; what it puts on the reply channel is       *)
(* N.out, what it writes on its pipes is N.tx.                             *)
(***************************************************************************)
MaxPublished == 3     \* messages the Pub peer of the Sub socket sends
MaxCalls == 3         \* calls a caller makes on one socket

TimedOut == NotifyErr("MsgNotRecv", "TimedOut")
MsgRecv(msg) == [kind |-> "MsgRecv", err |-> "none", n |-> msg.n, body |-> msg.body]

\* The state every socket has: the slot of the blocked caller, the armed
\* timers, and the handler's outputs.
NodeBase == [awaiting |-> "none", tm |-> {}, out |-> << >>, tx |-> << >>]

\* send_notify: the reply goes to the caller, who is blocked no more.
Reply(N, r) == [N EXCEPT !.out = Append(@, r), !.awaiting = "none"]

\* Pipe::send_nb on the pipe towards socket to.
Write(N, to, msg) == [N EXCEPT !.tx = Append(@, [to |-> to, msg |-> msg])]

\* The messages of tx written towards socket to, in order.
RECURSIVE TxTo(_, _)
TxTo(tx, to) ==
    IF tx = << >> THEN << >>
    ELSE (IF Head(tx).to = to THEN << Head(tx).msg >> ELSE << >>) \o TxTo(Tail(tx), to)

\* The handler of socket name is over: its state is stored, its replies reach
\* the caller and its writes reach the pipes.
Commit(name, N) ==
    /\ nodes' = [nodes EXCEPT ![name] = [N EXCEPT !.out = << >>, !.tx = << >>]]
    /\ results' = [results EXCEPT ![name] = @ \o N.out]
    /\ wire' = [l \in DOMAIN wire |->
                  IF l[1] = name THEN wire[l] \o TxTo(N.tx, l[2]) ELSE wire[l]]
    /\ UNCHANGED << engineVars, pipeVars >>

\* As Commit, the head of the pipe from socket from having been read.
CommitRead(name, from, N) ==
    /\ nodes' = [nodes EXCEPT ![name] = [N EXCEPT !.out = << >>, !.tx = << >>]]
    /\ results' = [results EXCEPT ![name] = @ \o N.out]
    /\ wire' = [l \in DOMAIN wire |->
                  IF l = << from, name >> THEN Tail(wire[l])
                  ELSE IF l[1] = name THEN wire[l] \o TxTo(N.tx, l[2])
                  ELSE wire[l]]
    /\ UNCHANGED << engineVars, pipeVars >>

\* A caller may call: the facade is blocking, and a caller makes max calls
\* at most.
CanCall(name, max) ==
    /\ nodes[name].awaiting = "none"
    /\ Len(results[name]) < max

\* The caller is blocked on its command; the timeout of the command is armed.
Calling(N, op) == [N EXCEPT !.awaiting = op]
RecvArmed(N) == [Calling(N, "recv") EXCEPT !.tm = @ \cup { "CancelRecv" }]
SendArmed(N) == [Calling(N, "send") EXCEPT !.tm = @ \cup { "CancelSend" }]

\* SocketImpl::recv: the CancelRecv timeout is armed, and only then does the
\* command reach the policy, whose outcome is handled.
Node_recv(N, armOk, handled) == IF armOk THEN handled ELSE Calling(N, "recv")

\* SocketImpl::send
Node_send(N, armOk, handled) == IF armOk THEN handled ELSE Calling(N, "send")

(***************************************************************************)
(* Sub (spec 4.3), fed by one Pub peer.                                    *)
(***************************************************************************)
SubBodies == { << >>, << 65 >>, << 65, 66 >>, << 66, 65 >> }
Prefixes == { << >>, << 65 >>, << 65, 66 >> }

\* Mutant of starts_with: every body matches.
starts_with_anything(body, prefix) == TRUE

\* The initial bytes of the body are those of the prefix.
starts_with(body, prefix) == Take(body, Len(prefix)) = prefix

\* SetOption(Subscribe(prefix)) / SetOption(Unsubscribe(prefix))
Sub_subscribe(N, prefix) == [N EXCEPT !.subs = @ \cup { prefix }]
Sub_unsubscribe(N, prefix) == [N EXCEPT !.subs = @ \ { prefix }]

\* Sub::recv: the recv is parked until a message matches or the timer fires.
Sub_recv(N) == [N EXCEPT !.pr = TRUE]

\* Sub::on_recv_done: the message is delivered when a subscription matches
\* it, and dropped otherwise, the recv staying parked.
Sub_on_recv_done(N, msg) ==
    IF N.pr /\ \E prefix \in N.subs : starts_with(msg.body, prefix)
    THEN Reply([N EXCEPT !.pr = FALSE, !.tm = @ \ { "CancelRecv" }], MsgRecv(msg))
    ELSE N

\* Sub::on_recv_timeout
Sub_on_recv_timeout(N) ==
    IF N.pr THEN Reply([N EXCEPT !.pr = FALSE], TimedOut) ELSE N

SubNode == NodeBase @@ [subs |-> {}, pr |-> FALSE]
PubPeer == NodeBase @@ [nsent |-> 0]

InitSub ==
    /\ EngineIdle
    /\ PipeIdle
    /\ nodes = [name \in { "pub", "sub" } |-> IF name = "pub" THEN PubPeer ELSE SubNode]
    /\ wire = [l \in { << "pub", "sub" >> } |-> << >>]
    /\ results = [name \in { "pub", "sub" } |-> << >>]

\* The Pub peer sends a message: it is written on the pipe to the Sub socket.
pub_send(body) ==
    /\ nodes["pub"].nsent < MaxPublished
    /\ LET N == nodes["pub"]
           msg == [n |-> N.nsent + 1, hdr |-> << >>, body |-> body]
       IN  Commit("pub", Write([N EXCEPT !.nsent = @ + 1], "sub", msg))

sub_set_option(subscribe, prefix) ==
    /\ nodes["sub"].awaiting = "none"
    /\ Commit("sub", IF subscribe THEN Sub_subscribe(nodes["sub"], prefix)
                     ELSE Sub_unsubscribe(nodes["sub"], prefix))

sub_recv(armOk) ==
    /\ CanCall("sub", MaxCalls)
    /\ Commit("sub", Node_recv(nodes["sub"], armOk, Sub_recv(RecvArmed(nodes["sub"]))))

\* The pipe has read a whole message while the recv is parked.
sub_on_recv_done ==
    /\ nodes["sub"].pr
    /\ wire[<< "pub", "sub" >>] # << >>
    /\ CommitRead("sub", "pub",
                  Sub_on_recv_done(nodes["sub"], Head(wire[<< "pub", "sub" >>])))

\* The CancelRecv timeout fires.
sub_on_recv_timeout ==
    /\ "CancelRecv" \in nodes["sub"].tm
    /\ Commit("sub", Sub_on_recv_timeout([nodes["sub"] EXCEPT !.tm = @ \ { "CancelRecv" }]))

NextSub ==
    \/ \E body \in SubBodies : pub_send(body)
    \/ \E s \in BOOLEAN, prefix \in Prefixes : sub_set_option(s, prefix)
    \/ \E k \in BOOLEAN : sub_recv(k)
    \/ sub_on_recv_done
    \/ sub_on_recv_timeout

SpecSub == InitSub /\ [][NextSub]_vars

(***************************************************************************)
(* Req and Rep (spec 4.3): two Req clients connected to one Rep server.    *)
(* At the server the token of a pipe is the name of the client behind it.  *)
(***************************************************************************)
MaxClientCalls == 2   \* calls made on one Req socket
MaxServerCalls == 4   \* calls made on the Rep socket

Clients == { "c1", "c2" }
ReqBodies == { << 65 >> }
RepBodies == { << 66 >>, << 67 >> }

MsgSent == Notify("MsgSent")
NotSent(err) == NotifyErr("MsgNotSent", err)

\* The 4-byte header of a request: 0x80000000 | counter, big endian.
ReqId(counter) == << 128, 0, 0, counter >>

\* Req::send: a new request id, the header prepended, the message written
\* to the peer, the pair (request id, pipe) recorded.
Req_send(N, msg) ==
    LET reqId == ReqId(N.counter + 1)
        N1 == [N EXCEPT !.counter = @ + 1,
                        !.outstanding = Some([id |-> reqId, pipe |-> "rep"]),
                        !.tm = @ \ { "CancelSend" }]
    IN  Reply(Write(N1, "rep", [msg EXCEPT !.hdr = reqId]), MsgSent)

\* Req::recv
Req_recv(N) == [N EXCEPT !.pr = TRUE]

\* Req::on_recv_done: the reply to the outstanding request is returned, any
\* other message is dropped.
Req_on_recv_done(N, msg) ==
    IF N.pr /\ N.outstanding # None /\ msg.hdr = N.outstanding[1].id
    THEN Reply([N EXCEPT !.pr = FALSE, !.outstanding = None,
                         !.tm = @ \ { "CancelRecv" }],
               MsgRecv(msg))
    ELSE N

\* Req::on_recv_timeout
Req_on_recv_timeout(N) ==
    IF N.pr THEN Reply([N EXCEPT !.pr = FALSE], TimedOut) ELSE N

\* Rep: the oldest request of the backlog is returned and its pair recorded.
Rep_deliver(N) ==
    IF N.pr /\ N.backlog # << >>
    THEN LET req == Head(N.backlog)
         IN  Reply([N EXCEPT !.pr = FALSE, !.backlog = Tail(@),
                             !.pair = Some([id |-> req.msg.hdr, pipe |-> req.pipe,
                                            re |-> req.msg.n]),
                             !.tm = @ \ { "CancelRecv" }],
                   MsgRecv(req.msg))
    ELSE N

\* Rep::recv
Rep_recv(N) == Rep_deliver([N EXCEPT !.pr = TRUE])

\* Rep::on_recv_done: the request joins the backlog with the token of the
\* pipe it came from.
Rep_on_recv_done(N, tok, msg) ==
    Rep_deliver([N EXCEPT !.backlog = Append(@, [pipe |-> tok, msg |-> msg])])

\* Rep::on_recv_timeout
Rep_on_recv_timeout(N) ==
    IF N.pr THEN Reply([N EXCEPT !.pr = FALSE], TimedOut) ELSE N

\* Mutant of reply_pipe: the reply goes to the first client.
reply_pipe_first(pair) == "c1"

\* The pipe a reply is written on: the one its request came from.
reply_pipe(pair) == pair.pipe

\* Rep::send: without a recorded pair the send fails; with one, the stored
\* request id is prepended, the reply written on the stored pipe and the
\* pair consumed.  replied is the history of the replies written.
Rep_send(N, msg) ==
    LET N0 == [N EXCEPT !.tm = @ \ { "CancelSend" }]
    IN  IF N.pair = None
        THEN Reply(N0, NotSent("Other"))
        ELSE LET pair == N.pair[1]
                 to == reply_pipe(pair)
                 N1 == [N0 EXCEPT !.pair = None,
                                  !.replied = Append(@, [to |-> to, id |-> pair.id,
                                                         re |-> pair.re,
                                                         body |-> msg.body])]
             IN  Reply(Write(N1, to, [msg EXCEPT !.hdr = pair.id]), MsgSent)

ReqNode == NodeBase @@ [counter |-> 0, outstanding |-> None, pr |-> FALSE]
RepNode == NodeBase @@ [backlog |-> << >>, pair |-> None, pr |-> FALSE,
                        replied |-> << >>]

InitReqRep ==
    /\ EngineIdle
    /\ PipeIdle
    /\ nodes = [name \in Clients \cup { "rep" } |->
                  IF name = "rep" THEN RepNode ELSE ReqNode]
    /\ wire = [l \in { << c, "rep" >> : c \in Clients } \cup
                     { << "rep", c >> : c \in Clients } |-> << >>]
    /\ results = [name \in Clients \cup { "rep" } |-> << >>]

req_send(c, body, armOk) ==
    /\ CanCall(c, MaxClientCalls)
    /\ LET msg == [n |-> << c, nodes[c].counter + 1 >>, hdr |-> << >>, body |-> body]
       IN  Commit(c, Node_send(nodes[c], armOk, Req_send(SendArmed(nodes[c]), msg)))

req_recv(c, armOk) ==
    /\ CanCall(c, MaxClientCalls)
    /\ Commit(c, Node_recv(nodes[c], armOk, Req_recv(RecvArmed(nodes[c]))))

req_on_recv_done(c) ==
    /\ nodes[c].pr
    /\ wire[<< "rep", c >>] # << >>
    /\ CommitRead(c, "rep", Req_on_recv_done(nodes[c], Head(wire[<< "rep", c >>])))

req_on_recv_timeout(c) ==
    /\ "CancelRecv" \in nodes[c].tm
    /\ Commit(c, Req_on_recv_timeout([nodes[c] EXCEPT !.tm = @ \ { "CancelRecv" }]))

rep_send(body, armOk) ==
    /\ CanCall("rep", MaxServerCalls)
    /\ LET msg == [n |-> << "rep", Len(nodes["rep"].replied) + 1 >>, hdr |-> << >>,
                   body |-> body]
       IN  Commit("rep", Node_send(nodes["rep"], armOk,
                                   Rep_send(SendArmed(nodes["rep"]), msg)))

rep_recv(armOk) ==
    /\ CanCall("rep", MaxServerCalls)
    /\ Commit("rep", Node_recv(nodes["rep"], armOk, Rep_recv(RecvArmed(nodes["rep"]))))

rep_on_recv_done(c) ==
    /\ wire[<< c, "rep" >>] # << >>
    /\ CommitRead("rep", c, Rep_on_recv_done(nodes["rep"], c, Head(wire[<< c, "rep" >>])))

rep_on_recv_timeout ==
    /\ "CancelRecv" \in nodes["rep"].tm
    /\ Commit("rep", Rep_on_recv_timeout([nodes["rep"] EXCEPT !.tm = @ \ { "CancelRecv" }]))

NextReqRep ==
    \/ \E c \in Clients, body \in ReqBodies, k \in BOOLEAN : req_send(c, body, k)
    \/ \E c \in Clients, k \in BOOLEAN : req_recv(c, k)
    \/ \E c \in Clients : req_on_recv_done(c)
    \/ \E c \in Clients : req_on_recv_timeout(c)
    \/ \E body \in RepBodies, k \in BOOLEAN : rep_send(body, k)
    \/ \E k \in BOOLEAN : rep_recv(k)
    \/ \E c \in Clients : rep_on_recv_done(c)
    \/ rep_on_recv_timeout

SpecReqRep == InitReqRep /\ [][NextReqRep]_vars

(***************************************************************************)
(* Surveyor and Respondent (spec 4.3): one Surveyor, one Respondent.       *)
(***************************************************************************)
MaxSurveyCalls == 4   \* calls made on the Surveyor socket
MaxResponses == 2     \* calls made on the Respondent socket

SurveyBodies == { << 65 >> }
ResponseBodies == { << 66 >> }

NotRecv(err) == NotifyErr("MsgNotRecv", err)

\* The 4-byte header of a survey: 0x80000000 | counter, big endian.
SurveyId(counter) == << 128, 0, 0, counter >>

\* Surveyor::send: a new survey id, the header prepended, the survey
\* broadcast, the survey deadline timer started.
Surveyor_send(N, msg) ==
    LET surveyId == SurveyId(N.counter + 1)
        N1 == [N EXCEPT !.counter = @ + 1,
                        !.survey = Some(surveyId),
                        !.expired = FALSE,
                        !.tm = (@ \ { "CancelSend" }) \cup { "CancelSurvey" }]
    IN  Reply(Write(N1, "resp", [msg EXCEPT !.hdr = surveyId]), MsgSent)

\* Surveyor::recv: past the deadline the recv fails at once.
Surveyor_recv(N) ==
    IF N.expired
    THEN Reply([N EXCEPT !.tm = @ \ { "CancelRecv" }], NotRecv("Other"))
    ELSE [N EXCEPT !.pr = TRUE]

\* Surveyor::on_recv_done: a response to the current survey is returned, any
\* other message is dropped.
Surveyor_on_recv_done(N, msg) ==
    IF N.pr /\ ~N.expired /\ N.survey = Some(msg.hdr)
    THEN Reply([N EXCEPT !.pr = FALSE, !.tm = @ \ { "CancelRecv" }], MsgRecv(msg))
    ELSE N

\* Surveyor::on_survey_timeout: the survey is over, the recv in progress
\* fails.
Surveyor_on_survey_timeout(N) ==
    LET N1 == [N EXCEPT !.expired = TRUE]
    IN  IF N.pr
        THEN Reply([N1 EXCEPT !.pr = FALSE, !.tm = @ \ { "CancelRecv" }], NotRecv("Other"))
        ELSE N1

\* Surveyor::on_recv_timeout
Surveyor_on_recv_timeout(N) ==
    IF N.pr THEN Reply([N EXCEPT !.pr = FALSE], TimedOut) ELSE N

\* Respondent::on_recv_done: the most recent (survey id, pipe) is kept.
Respondent_on_recv_done(N, tok, msg) ==
    [N EXCEPT !.pair = Some([id |-> msg.hdr, pipe |-> tok])]

\* Respondent::send: the response reuses the recorded survey id.
Respondent_send(N, msg) ==
    LET N0 == [N EXCEPT !.tm = @ \ { "CancelSend" }]
    IN  IF N.pair = None
        THEN Reply(N0, NotSent("Other"))
        ELSE Reply(Write(N0, N.pair[1].pipe, [msg EXCEPT !.hdr = N.pair[1].id]), MsgSent)

SurveyorNode == NodeBase @@ [counter |-> 0, survey |-> None, expired |-> FALSE,
                             pr |-> FALSE]
RespondentNode == NodeBase @@ [pair |-> None, nsent |-> 0]

InitSurvey ==
    /\ EngineIdle
    /\ PipeIdle
    /\ nodes = [name \in { "surv", "resp" } |->
                  IF name = "surv" THEN SurveyorNode ELSE RespondentNode]
    /\ wire = [l \in { << "surv", "resp" >>, << "resp", "surv" >> } |-> << >>]
    /\ results = [name \in { "surv", "resp" } |-> << >>]

surv_send(body, armOk) ==
    /\ CanCall("surv", MaxSurveyCalls)
    /\ LET msg == [n |-> << "surv", nodes["surv"].counter + 1 >>, hdr |-> << >>,
                   body |-> body]
       IN  Commit("surv", Node_send(nodes["surv"], armOk,
                                    Surveyor_send(SendArmed(nodes["surv"]), msg)))

surv_recv(armOk) ==
    /\ CanCall("surv", MaxSurveyCalls)
    /\ Commit("surv", Node_recv(nodes["surv"], armOk, Surveyor_recv(RecvArmed(nodes["surv"]))))

surv_on_recv_done ==
    /\ nodes["surv"].pr
    /\ wire[<< "resp", "surv" >>] # << >>
    /\ CommitRead("surv", "resp",
                  Surveyor_on_recv_done(nodes["surv"], Head(wire[<< "resp", "surv" >>])))

\* The CancelSurvey timeout fires.
surv_on_survey_timeout ==
    /\ "CancelSurvey" \in nodes["surv"].tm
    /\ Commit("surv", Surveyor_on_survey_timeout(
                          [nodes["surv"] EXCEPT !.tm = @ \ { "CancelSurvey" }]))

surv_on_recv_timeout ==
    /\ "CancelRecv" \in nodes["surv"].tm
    /\ Commit("surv", Surveyor_on_recv_timeout(
                          [nodes["surv"] EXCEPT !.tm = @ \ { "CancelRecv" }]))

resp_on_recv_done ==
    /\ wire[<< "surv", "resp" >>] # << >>
    /\ CommitRead("resp", "surv",
                  Respondent_on_recv_done(nodes["resp"], "surv",
                                          Head(wire[<< "surv", "resp" >>])))

resp_send(body, armOk) ==
    /\ CanCall("resp", MaxResponses)
    /\ LET N == [nodes["resp"] EXCEPT !.nsent = @ + 1]
           msg == [n |-> << "resp", N.nsent >>, hdr |-> << >>, body |-> body]
       IN  Commit("resp", Node_send(N, armOk, Respondent_send(SendArmed(N), msg)))

NextSurvey ==
    \/ \E body \in SurveyBodies, k \in BOOLEAN : surv_send(body, k)
    \/ \E k \in BOOLEAN : surv_recv(k)
    \/ surv_on_recv_done
    \/ surv_on_survey_timeout
    \/ surv_on_recv_timeout
    \/ resp_on_recv_done
    \/ \E body \in ResponseBodies, k \in BOOLEAN : resp_send(body, k)

SpecSurvey == InitSurvey /\ [][NextSurvey]_vars

(***************************************************************************)
(* Push and Pull (spec 4.3): one Push socket whose pipe to one Pull socket *)
(* opens at some moment.  N.snd holds the pipes whose MsgSnd signal is     *)
(* still to come; N.written is the history of the messages handed to a     *)
(* pipe, N.parkedDone the number of parked sends a pipe opening released.  *)
(***************************************************************************)
MaxPushCalls == 2     \* calls made on the Push socket
MaxPullCalls == 2     \* calls made on the Pull socket

PushBodies == { << 65 >>, << 66 >> }

\* The message of the send slot is handed to pipe tok.
PushSock_hand(N, tok) ==
    Write([N EXCEPT !.ps = Some([@[1] EXCEPT !.on = Some(tok)]),
                    !.snd = @ \cup { tok },
                    !.written = Append(@, N.ps[1].msg)],
          tok, N.ps[1].msg)

\* Push::send: the message goes to an opened pipe, or is parked on the send
\* slot.
PushSock_send(N, msg) ==
    LET N1 == [N EXCEPT !.ps = Some([msg |-> msg, on |-> None, parked |-> N.opened = {}])]
    IN  IF N.opened # {}
        THEN PushSock_hand(N1, CHOOSE tok \in N.opened : TRUE)
        ELSE N1

\* Mutant of PushSock_on_pipe_opened: the parked message stays parked.
PushSock_on_pipe_opened_only(N, tok) == [N EXCEPT !.opened = @ \cup { tok }]

\* Push::on_pipe_opened: the pipe joins the opened pipes and takes the
\* parked message.
PushSock_on_pipe_opened(N, tok) ==
    LET N1 == [N EXCEPT !.opened = @ \cup { tok }]
    IN  IF N.ps # None /\ N.ps[1].on = None
        THEN PushSock_hand([N1 EXCEPT !.parkedDone = @ + 1], tok)
        ELSE N1

\* Push::on_send_done: the pipe has written the message of the send slot.
PushSock_on_send_done(N, tok) ==
    IF N.ps # None /\ N.ps[1].on = Some(tok)
    THEN Reply([N EXCEPT !.ps = None, !.tm = @ \ { "CancelSend" }], MsgSent)
    ELSE N

\* Push::on_send_timeout: the send slot is cleared, the write in progress
\* given up.
PushSock_on_send_timeout(N) ==
    IF N.ps # None
    THEN Reply([N EXCEPT !.ps = None, !.snd = {}], NotSent("TimedOut"))
    ELSE N

\* Pull::recv, on_recv_done, on_recv_timeout
PullSock_recv(N) == [N EXCEPT !.pr = TRUE]

PullSock_on_recv_done(N, msg) ==
    IF N.pr
    THEN Reply([N EXCEPT !.pr = FALSE, !.tm = @ \ { "CancelRecv" }], MsgRecv(msg))
    ELSE N

PullSock_on_recv_timeout(N) ==
    IF N.pr THEN Reply([N EXCEPT !.pr = FALSE], TimedOut) ELSE N

PushNode == NodeBase @@ [opened |-> {}, ps |-> None, snd |-> {}, nsent |-> 0,
                         written |-> << >>, parkedDone |-> 0]
PullNode == NodeBase @@ [pr |-> FALSE]

InitPipeline ==
    /\ EngineIdle
    /\ PipeIdle
    /\ nodes = [name \in { "push", "pull" } |->
                  IF name = "push" THEN PushNode ELSE PullNode]
    /\ wire = [l \in { << "push", "pull" >> } |-> << >>]
    /\ results = [name \in { "push", "pull" } |-> << >>]

push_send(body, armOk) ==
    /\ CanCall("push", MaxPushCalls)
    /\ LET N == [nodes["push"] EXCEPT !.nsent = @ + 1]
           msg == [n |-> N.nsent, hdr |-> << >>, body |-> body]
       IN  Commit("push", Node_send(N, armOk, PushSock_send(SendArmed(N), msg)))

\* PipeEvtSignal::Opened of the pipe to the Pull socket.
push_on_pipe_opened ==
    /\ "pull" \notin nodes["push"].opened
    /\ Commit("push", PushSock_on_pipe_opened(nodes["push"], "pull"))

\* PipeEvtSignal::MsgSnd
push_on_send_done(tok) ==
    /\ tok \in nodes["push"].snd
    /\ Commit("push", PushSock_on_send_done([nodes["push"] EXCEPT !.snd = @ \ { tok }], tok))

\* The CancelSend timeout fires.
push_on_send_timeout ==
    /\ "CancelSend" \in nodes["push"].tm
    /\ Commit("push", PushSock_on_send_timeout(
                          [nodes["push"] EXCEPT !.tm = @ \ { "CancelSend" }]))

pull_recv(armOk) ==
    /\ CanCall("pull", MaxPullCalls)
    /\ Commit("pull", Node_recv(nodes["pull"], armOk, PullSock_recv(RecvArmed(nodes["pull"]))))

pull_on_recv_done ==
    /\ nodes["pull"].pr
    /\ wire[<< "push", "pull" >>] # << >>
    /\ CommitRead("pull", "push",
                  PullSock_on_recv_done(nodes["pull"], Head(wire[<< "push", "pull" >>])))

pull_on_recv_timeout ==
    /\ "CancelRecv" \in nodes["pull"].tm
    /\ Commit("pull", PullSock_on_recv_timeout(
                          [nodes["pull"] EXCEPT !.tm = @ \ { "CancelRecv" }]))

NextPipeline ==
    \/ \E body \in PushBodies, k \in BOOLEAN : push_send(body, k)
    \/ push_on_pipe_opened
    \/ \E tok \in { "pull" } : push_on_send_done(tok)
    \/ push_on_send_timeout
    \/ \E k \in BOOLEAN : pull_recv(k)
    \/ pull_on_recv_done
    \/ pull_on_recv_timeout

SpecPipeline == InitPipeline /\ [][NextPipeline]_vars

(***************************************************************************)
(* Bus (spec 4.3): two Bus clients connected to one Bus server, which      *)
(* forwards what it receives (SocketFacade::forward_msg).  A message       *)
(* returned by recv carries in its header the token of the pipe it came    *)
(* from; at the server the token of a pipe is the name of the client       *)
(* behind it, at a client the token of its one pipe is "srv".              *)
(***************************************************************************)
MaxBusCalls == 2      \* calls made on one Bus socket

BusClients == { "b1", "b2" }
BusPeers(name) == IF name = "srv" THEN BusClients ELSE { "srv" }
BusBodies == { << 65 >> }

\* Pipe::send_nb on each pipe of toks.
RECURSIVE WriteAll(_, _, _)
WriteAll(N, toks, msg) ==
    IF toks = {} THEN N
    ELSE LET tok == CHOOSE t \in toks : TRUE
         IN  WriteAll(Write(N, tok, msg), toks \ { tok }, msg)

\* Mutant of Bus_targets: the pipe the message came from is written to as
\* well.
Bus_targets_all(N, msg) == N.opened

\* The pipes a message is sent on: every opened pipe but the one it came
\* from.
Bus_targets(N, msg) == N.opened \ { msg.hdr[i] : i \in DOMAIN msg.hdr }

\* Bus::send
Bus_send(N, msg) ==
    LET N1 == WriteAll([N EXCEPT !.tm = @ \ { "CancelSend" }], Bus_targets(N, msg),
                       [msg EXCEPT !.hdr = << >>])
    IN  Reply(N1, MsgSent)

\* Bus::recv
Bus_recv(N) == [N EXCEPT !.pr = TRUE]

\* Bus::on_recv_done: any message is returned, the token of its pipe in its
\* header.
Bus_on_recv_done(N, tok, msg) ==
    IF N.pr
    THEN Reply([N EXCEPT !.pr = FALSE, !.tm = @ \ { "CancelRecv" }],
               MsgRecv(msg) @@ [from |-> tok])
    ELSE N

\* Bus::on_recv_timeout
Bus_on_recv_timeout(N) ==
    IF N.pr THEN Reply([N EXCEPT !.pr = FALSE], TimedOut) ELSE N

\* Bus::on_pipe_opened
Bus_on_pipe_opened(N, tok) == [N EXCEPT !.opened = @ \cup { tok }]

BusNode == NodeBase @@ [opened |-> {}, pr |-> FALSE, nsent |-> 0]

InitBus ==
    /\ EngineIdle
    /\ PipeIdle
    /\ nodes = [name \in BusClients \cup { "srv" } |-> BusNode]
    /\ wire = [l \in { << c, "srv" >> : c \in BusClients } \cup
                     { << "srv", c >> : c \in BusClients } |-> << >>]
    /\ results = [name \in BusClients \cup { "srv" } |-> << >>]

\* SocketFacade::send_msg of a message of the caller's own.
bus_send(name, body, armOk) ==
    /\ CanCall(name, MaxBusCalls)
    /\ LET N == [nodes[name] EXCEPT !.nsent = @ + 1]
           msg == [n |-> << name, N.nsent >>, hdr |-> << >>, body |-> body]
       IN  Commit(name, Node_send(N, armOk, Bus_send(SendArmed(N), msg)))

\* The second half of SocketFacade::forward_msg: the message recv_msg has
\* just returned is sent again.
bus_forward(armOk) ==
    /\ CanCall("srv", MaxBusCalls)
    /\ results["srv"] # << >>
    /\ LET r == results["srv"][Len(results["srv"])]
       IN  /\ r.kind = "MsgRecv"
           /\ Commit("srv", Node_send(nodes["srv"], armOk,
                                      Bus_send(SendArmed(nodes["srv"]),
                                               [n |-> r.n, hdr |-> << r.from >>,
                                                body |-> r.body])))

bus_recv(name, armOk) ==
    /\ CanCall(name, MaxBusCalls)
    /\ Commit(name, Node_recv(nodes[name], armOk, Bus_recv(RecvArmed(nodes[name]))))

bus_on_recv_done(name, tok) ==
    /\ nodes[name].pr
    /\ tok \in BusPeers(name)
    /\ wire[<< tok, name >>] # << >>
    /\ CommitRead(name, tok, Bus_on_recv_done(nodes[name], tok, Head(wire[<< tok, name >>])))

bus_on_recv_timeout(name) ==
    /\ "CancelRecv" \in nodes[name].tm
    /\ Commit(name, Bus_on_recv_timeout([nodes[name] EXCEPT !.tm = @ \ { "CancelRecv" }]))

bus_on_pipe_opened(name, tok) ==
    /\ tok \in BusPeers(name)
    /\ tok \notin nodes[name].opened
    /\ Commit(name, Bus_on_pipe_opened(nodes[name], tok))

NextBus ==
    \/ \E name \in BusClients \cup { "srv" }, body \in BusBodies, k \in BOOLEAN :
          bus_send(name, body, k)
    \/ \E k \in BOOLEAN : bus_forward(k)
    \/ \E name \in BusClients \cup { "srv" }, k \in BOOLEAN : bus_recv(name, k)
    \/ \E name \in BusClients \cup { "srv" }, tok \in BusClients \cup { "srv" } :
          bus_on_recv_done(name, tok)
    \/ \E name \in BusClients \cup { "srv" } : bus_on_recv_timeout(name)
    \/ \E name \in BusClients \cup { "srv" }, tok \in BusClients \cup { "srv" } :
          bus_on_pipe_opened(name, tok)

SpecBus == InitBus /\ [][NextBus]_vars

(***************************************************************************)
(* IdSequence (global.rs): a handle on a reference-counted cell.  nodes is  *)
(* the memory M: M.heap holds the cells, M.seqs gives for each handle the   *)
(* cell it points to (None until the handle exists); results is the        *)
(* history of the next() calls, in call order.                             *)
(***************************************************************************)
MaxNextCalls == 4     \* calls of next() over all handles

\* The session's sequence, a clone of it, and the clone SocketImpl::new is
\* given.
SeqHandles == { "seq", "other", "socket" }

\* IdSequence::new: Rc::new(Cell::new(0))
IdSequence_new(M, h) ==
    [M EXCEPT !.heap = Append(@, 0), !.seqs[h] = Some(Len(M.heap) + 1)]

\* Mutant of clone: the value is copied into a cell of its own.
IdSequence_clone_value(M, h, h2) ==
    [M EXCEPT !.heap = Append(@, M.heap[M.seqs[h][1]]),
              !.seqs[h2] = Some(Len(M.heap) + 1)]

\* #[derive(Clone)] on IdSequence: Rc::clone, the new handle points to the
\* same cell.
IdSequence_clone(M, h, h2) == [M EXCEPT !.seqs[h2] = M.seqs[h]]

\* IdSequence::next
IdSequence_next(M, h) ==
    LET cell == M.seqs[h][1]
        value == M.heap[cell]
    IN  [mem |-> [M EXCEPT !.heap[cell] = value + 1], id |-> value]

SeqStore(M, calls) ==
    /\ nodes' = M
    /\ results' = calls
    /\ UNCHANGED << wire, engineVars, pipeVars >>

\* let other = seq.clone()
seq_clone(h, h2) ==
    /\ nodes.seqs[h] # None
    /\ nodes.seqs[h2] = None
    /\ SeqStore(IdSequence_clone(nodes, h, h2), results)

\* h.next() by any holder of a handle
seq_next(h) ==
    /\ nodes.seqs[h] # None
    /\ Len(results) < MaxNextCalls
    /\ LET r == IdSequence_next(nodes, h)
       IN  SeqStore(r.mem, Append(results, [h |-> h, id |-> r.id, accepted |-> FALSE]))

\* SocketImpl::on_connection_accepted: the token of the accepted pipe is
\* id_seq.next() on the socket's handle.
seq_on_connection_accepted ==
    /\ nodes.seqs["socket"] # None
    /\ Len(results) < MaxNextCalls
    /\ LET r == IdSequence_next(nodes, "socket")
       IN  SeqStore(r.mem, Append(results, [h |-> "socket", id |-> r.id, accepted |-> TRUE]))

InitIdSeq ==
    /\ EngineIdle
    /\ PipeIdle
    /\ nodes = IdSequence_new([heap |-> << >>, seqs |-> [h \in SeqHandles |-> None]], "seq")
    /\ wire = << >>
    /\ results = << >>

NextIdSeq ==
    \/ \E h, h2 \in SeqHandles : seq_clone(h, h2)
    \/ \E h \in SeqHandles : seq_next(h)
    \/ seq_on_connection_accepted

SpecIdSeq == InitIdSeq /\ [][NextIdSeq]_vars

(***************************************************************************)
(* Socket types (global.rs): two facades of any two types; one asks        *)
(* whether it matches the other.  results holds the answers.               *)
(***************************************************************************)
NewFacade(t) == [socket_type |-> t]

\* SocketFacade::get_socket_type
get_socket_type(F) == F.socket_type

\* SocketFacade::matches
SocketFacade_matches(F, other) == matches(F.socket_type, other.socket_type)

\* self.matches(&other)
facade_matches ==
    /\ results = << >>
    /\ results' = << SocketFacade_matches(nodes["self"], nodes["other"]) >>
    /\ UNCHANGED << nodes, wire, engineVars, pipeVars >>

\* other.matches(&self), asked after the first answer
facade_matched_back ==
    /\ Len(results) = 1
    /\ results' = Append(results, SocketFacade_matches(nodes["other"], nodes["self"]))
    /\ UNCHANGED << nodes, wire, engineVars, pipeVars >>

InitTypes ==
    /\ EngineIdle
    /\ PipeIdle
    /\ \E a, b \in SocketTypes :
          nodes = [name \in { "self", "other" } |->
                     NewFacade(IF name = "self" THEN a ELSE b)]
    /\ wire = << >>
    /\ results = << >>

NextTypes ==
    \/ facade_matches
    \/ facade_matched_back

SpecTypes == InitTypes /\ [][NextTypes]_vars

(***************************************************************************)
(* The facade and its two channels (socket_facade.rs).  The command queue  *)
(* wire[CmdLink] is shared by every holder of a clone of cmd_sender; the   *)
(* reply channel wire[EvtLink] belongs to the facade.  results["facade"]   *)
(* holds what the calls of the facade returned.                            *)
(***************************************************************************)
NotifyCapacity == 1   \* commands the event loop's queue holds
MaxFacadeCalls == 2   \* calls made on the facade
MaxPeerCmds == 2      \* commands sent by the other holders of cmd_sender

CmdLink == << "session", "loop" >>
EvtLink == << "loop", "facade" >>

FacadeCmds == { "Connect", "Bind", "SendMsg", "RecvMsg", "SetOption" }

\* io::Error: its kind and its message.
IoError(kind, msg) == [kind |-> kind, msg |-> msg]
other_io_error(msg) == IoError("Other", msg)

\* Outcomes of mio::Sender::send the state of the queue allows.  An I/O
\* error of the wake-up leaves the command in the queue (IoQueued) or not.
NotifyOutcomes(q, closed) ==
    (IF closed THEN { "Closed" } ELSE {})
      \cup (IF Len(q) >= NotifyCapacity THEN { "Full" } ELSE {})
      \cup (IF ~closed /\ Len(q) < NotifyCapacity
            THEN { "Ok", "Io", "IoQueued" } ELSE {})

\* Mutant of convert_notify_err: a full queue is reported as a closed one.
convert_notify_err_full_as_closed(err) ==
    CASE err \in { "Io", "IoQueued" } -> IoError("BrokenPipe", "io")
      [] err = "Closed" -> other_io_error("cmd channel closed")
      [] err = "Full" -> other_io_error("cmd channel closed")

\* convert_notify_err
convert_notify_err(err) ==
    CASE err \in { "Io", "IoQueued" } -> IoError("BrokenPipe", "io")
      [] err = "Closed" -> other_io_error("cmd channel closed")
      [] err = "Full" -> IoError("WouldBlock", "cmd channel full")

\* SocketFacade::send_cmd: the command is queued, or the error converted.
send_cmd(q, cmd, outcome) ==
    [q |-> IF outcome \in { "Ok", "IoQueued" }
           THEN Append(q, [from |-> "facade", cmd |-> cmd]) ELSE q,
     res |-> IF outcome = "Ok" THEN None ELSE Some(convert_notify_err(outcome))]

\* The notifications the facade call of a command takes as its answer.
Answers(cmd) ==
    CASE cmd = "Connect" -> { "Connected", "NotConnected" }
      [] cmd = "Bind" -> { "Bound", "NotBound" }
      [] cmd = "SendMsg" -> { "MsgSent", "MsgNotSent" }
      [] cmd = "RecvMsg" -> { "MsgRecv", "MsgNotRecv" }
      [] cmd = "SetOption" -> { "OptionSet", "OptionNotSet" }

AllAnswers == UNION { Answers(cmd) : cmd \in FacadeCmds }
OkAnswers == { "Connected", "Bound", "MsgSent", "MsgRecv", "OptionSet" }

Returned(cmd, err) == [op |-> cmd, err |-> err]

\* The match on evt_receiver.recv() of connect, bind, send_msg, recv_msg and
\* set_option: evt is Some(notification), or None when the channel is closed.
facade_match(cmd, evt) ==
    IF evt = None THEN Returned(cmd, Some(other_io_error("evt channel closed")))
    ELSE IF evt[1] \notin Answers(cmd)
    THEN Returned(cmd, Some(other_io_error("unexpected evt")))
    ELSE IF evt[1] \in OkAnswers THEN Returned(cmd, None)
    ELSE Returned(cmd, Some(IoError("Engine", "e")))

FacadeStore(F, q, evts, rets) ==
    /\ nodes' = [nodes EXCEPT !["facade"] = F]
    /\ wire' = [wire EXCEPT ![CmdLink] = q, ![EvtLink] = evts]
    /\ results' = [results EXCEPT !["facade"] = @ \o rets]
    /\ UNCHANGED << engineVars, pipeVars >>

\* SocketFacade::connect, bind, send_msg, recv_msg, set_option up to the
\* try! on send_cmd: on an error the call returns it, otherwise the caller
\* goes on to wait for the answer.
facade_call(cmd, outcome) ==
    /\ nodes["facade"].awaiting = "none"
    /\ nodes["facade"].calls < MaxFacadeCalls
    /\ outcome \in NotifyOutcomes(wire[CmdLink], nodes["loop"].closed)
    /\ LET r == send_cmd(wire[CmdLink], cmd, outcome)
           F == [nodes["facade"] EXCEPT !.calls = @ + 1]
       IN  IF r.res = None
           THEN FacadeStore([F EXCEPT !.awaiting = cmd], r.q, wire[EvtLink], << >>)
           ELSE FacadeStore(F, r.q, wire[EvtLink], << Returned(cmd, r.res) >>)

\* The rest of the call: evt_receiver.recv() blocks until a notification is
\* there or the channel is closed.
facade_wait ==
    /\ nodes["facade"].awaiting # "none"
    /\ wire[EvtLink] # << >> \/ nodes["loop"].closed
    /\ LET cmd == nodes["facade"].awaiting
           F == [nodes["facade"] EXCEPT !.awaiting = "none"]
       IN  IF wire[EvtLink] # << >>
           THEN FacadeStore(F, wire[CmdLink], Tail(wire[EvtLink]),
                            << facade_match(cmd, Some(Head(wire[EvtLink]))) >>)
           ELSE FacadeStore(F, wire[CmdLink], wire[EvtLink],
                            << facade_match(cmd, None) >>)

\* Another socket or endpoint of the session sends a command.
peer_send_cmd ==
    /\ ~nodes["loop"].closed
    /\ Len(wire[CmdLink]) < NotifyCapacity
    /\ nodes["loop"].peerCmds < MaxPeerCmds
    /\ nodes' = [nodes EXCEPT !["loop"].peerCmds = @ + 1]
    /\ wire' = [wire EXCEPT ![CmdLink] = Append(@, [from |-> "peer", cmd |-> "SendMsg"])]
    /\ UNCHANGED << results, engineVars, pipeVars >>

\* The event loop takes a command from the queue; the socket answers the
\* facade's command with a notification of its kind (or, for a send or a
\* recv whose timeout could not be armed, with none).
loop_notify(evt) ==
    /\ ~nodes["loop"].closed
    /\ wire[CmdLink] # << >>
    /\ LET c == Head(wire[CmdLink])
       IN  /\ IF c.from = "facade"
              THEN evt \in { Some(a) : a \in Answers(c.cmd) }
                           \cup (IF c.cmd \in { "SendMsg", "RecvMsg" } THEN { None } ELSE {})
              ELSE evt = None
           /\ wire' = [wire EXCEPT ![CmdLink] = Tail(@), ![EvtLink] = @ \o evt]
    /\ UNCHANGED << nodes, results, engineVars, pipeVars >>

\* The event loop ends: both channels are closed.
loop_shutdown ==
    /\ ~nodes["loop"].closed
    /\ nodes' = [nodes EXCEPT !["loop"].closed = TRUE]
    /\ UNCHANGED << wire, results, engineVars, pipeVars >>

InitFacade ==
    /\ EngineIdle
    /\ PipeIdle
    /\ nodes = [name \in { "facade", "loop" } |->
                  IF name = "facade" THEN [awaiting |-> "none", calls |-> 0]
                  ELSE [closed |-> FALSE, peerCmds |-> 0]]
    /\ wire = [l \in { CmdLink, EvtLink } |-> << >>]
    /\ results = [name \in { "facade" } |-> << >>]

NextFacade ==
    \/ \E cmd \in FacadeCmds, outcome \in { "Ok", "Io", "IoQueued", "Full", "Closed" } :
          facade_call(cmd, outcome)
    \/ facade_wait
    \/ peer_send_cmd
    \/ \E evt \in { None } \cup { Some(a) : a \in AllAnswers } : loop_notify(evt)
    \/ loop_shutdown

SpecFacade == InitFacade /\ [][NextFacade]_vars

(***************************************************************************)
(* The receive operation of pipe.rs on its own: one RecvOperation kept by  *)
(* its caller across calls of recv, on a connection the peer writes framed *)
(* messages to, or a pipe in Idle receiving on the connection with an      *)
(* operation of its own for each call.  nodes holds who reads the          *)
(* connection (the operation's caller or the pipe), the operation, the     *)
(* unread bytes of the connection, the number of frames written, whether   *)
(* the peer has closed, and the state and signals of the pipe; results     *)
(* holds what the last call returned.                                      *)
(***************************************************************************)
MaxOpMsgs == 2        \* frames the peer writes
MaxOpBodyLen == 2     \* bytes in the body of a frame

OpBodies == UNION { [1..k -> BodyBytes] : k \in 0..MaxOpBodyLen }

OpStore(op, conn, written, last) ==
    /\ nodes' = [nodes EXCEPT !.op = op, !.conn = conn, !.written = written]
    /\ results' = last
    /\ UNCHANGED << wire, engineVars, pipeVars >>

\* The pipe in Idle that owns the connection.
OpPipe == [Pipe_new EXCEPT !.state = nodes.state, !.conn = nodes.conn,
                           !.signals = nodes.signals]

\* Connection::try_read at the end of the stream (the peer has closed and
\* unread bytes are left of what it wrote): the transport indicates the end
\* of the stream as an error; a read of zero bytes means no data yet.
try_read_ok(closed, unread, ioOk) == IF closed /\ unread = 0 THEN FALSE ELSE ioOk

\* Whether the first read of a call succeeds, and the read after it.
FirstOk(ioOk) == try_read_ok(nodes.closed, Len(nodes.conn), ioOk)
SecondOk(missing, n1, ioOk) ==
    try_read_ok(nodes.closed, Len(nodes.conn) - Min(n1, missing), ioOk)

\* What a read did: it failed, it yielded no byte (or would block), or it
\* yielded bytes.
ReadKind(n, ioOk) == IF ~ioOk THEN "error" ELSE IF n = 0 THEN "zero" ELSE "data"

\* The reads a call of recv made: the first, and the read of the payload
\* that follows when the first completes a prefix of a length above zero.
ReadsMade(op, conn, n1, ok1, n2, ok2) ==
    IF op.step = "Prefix"
    THEN LET missing == 8 - op.read
             prefix == Take(op.prefix, op.read) \o Take(conn, missing)
         IN  [first |-> ReadKind(n1, ok1),
              second |-> IF ok1 /\ n1 >= missing /\ read_u64(prefix) > 0
                         THEN ReadKind(n2, ok2) ELSE "none"]
    ELSE [first |-> ReadKind(n2, ok2), second |-> "none"]

\* The thread has not panicked in an earlier call.
OpAlive == IF results = << >> THEN TRUE ELSE results[1].res # "Panic"

\* operation.recv(connection): the first read returns at most n1 bytes or
\* fails, and so does the read that follows a completed prefix.
op_recv(n1, ok1, n2, ok2) ==
    /\ nodes.reader = "caller"
    /\ OpAlive
    /\ LET k1 == FirstOk(ok1)
           k2 == IF nodes.op.step = "Prefix"
                 THEN SecondOk(8 - nodes.op.read, n1, ok2)
                 ELSE FirstOk(ok2)
           r == RecvOperation_recv(nodes.op, nodes.conn, n1, k1, n2, k2)
       IN  OpStore(r.op, r.conn, nodes.written,
                   << [res |-> r.res, msg |-> r.msg,
                       reads |-> ReadsMade(nodes.op, nodes.conn, n1, k1, n2, k2)] >>)

\* RecvOperation::new(): the caller drops the operation and makes a new one.
op_new ==
    /\ nodes.reader = "caller"
    /\ OpAlive
    /\ OpStore(RecvOperation_new, nodes.conn, nodes.written, << >>)

\* Pipe::recv on the pipe that owns the connection.
op_pipe_recv(n1, ok1, n2, ok2) ==
    /\ nodes.reader = "pipe"
    /\ LET k1 == FirstOk(ok1)
           k2 == SecondOk(8, n1, ok2)
           Q == PipeState_recv(OpPipe, n1, k1, n2, k2)
       IN  /\ nodes' = [nodes EXCEPT !.conn = Q.conn, !.state = Q.state,
                                     !.signals = Q.signals]
           /\ results' = << [res |-> "Pipe::recv", msg |-> << >>,
                             reads |-> IF nodes.state = "Idle"
                                       THEN ReadsMade(RecvOperation_new, nodes.conn,
                                                      n1, k1, n2, k2)
                                       ELSE [first |-> "none", second |-> "none"]] >>
           /\ UNCHANGED << wire, engineVars, pipeVars >>

\* The peer closes the connection.
op_peer_close ==
    /\ ~nodes.closed
    /\ nodes' = [nodes EXCEPT !.closed = TRUE]
    /\ UNCHANGED << results, wire, engineVars, pipeVars >>

\* The peer writes the frame of a message.
op_peer_write(body) ==
    /\ ~nodes.closed
    /\ nodes.written < MaxOpMsgs
    /\ OpStore(nodes.op, nodes.conn \o Frame(body), nodes.written + 1, results)

InitRecvOp ==
    /\ EngineIdle
    /\ PipeIdle
    /\ \E reader \in { "caller", "pipe" } :
          nodes = [reader |-> reader, op |-> RecvOperation_new, conn |-> << >>,
                   written |-> 0, closed |-> FALSE, state |-> "Idle",
                   signals |-> << >>]
    /\ wire = << >>
    /\ results = << >>

\* What the reads of a call can return: the read of the prefix at most
\* what the connection holds, the read of the payload at most what the
\* prefix has left.  A read that the call does not make is not drawn.
OpReads ==
    IF nodes.op.step = "Prefix"
    THEN { r \in (0..Len(nodes.conn)) \X BOOLEAN \X (0..Len(nodes.conn)) \X BOOLEAN :
             IF r[2] /\ r[1] >= 8 - nodes.op.read
             THEN r[3] <= Len(nodes.conn) - (8 - nodes.op.read)
             ELSE r[3] = 0 /\ r[4] }
    ELSE { r \in { 0 } \X { TRUE } \X (0..Len(nodes.conn)) \X BOOLEAN : TRUE }

\* The reads of a call of Pipe::recv, whose operation is new.
PipeReads ==
    { r \in (0..Len(nodes.conn)) \X BOOLEAN \X (0..Len(nodes.conn)) \X BOOLEAN :
        IF r[2] /\ r[1] >= 8
        THEN r[3] <= Len(nodes.conn) - 8
        ELSE r[3] = 0 /\ r[4] }

NextRecvOp ==
    \/ \E r \in OpReads : op_recv(r[1], r[2], r[3], r[4])
    \/ \E r \in PipeReads : op_pipe_recv(r[1], r[2], r[3], r[4])
    \/ op_new
    \/ op_peer_close
    \/ \E body \in OpBodies : op_peer_write(body)

SpecRecvOp == InitRecvOp /\ [][NextRecvOp]_vars

(***************************************************************************)
(* The socket and its acceptor: SocketImpl::ready with the tokens it       *)
(* returns.  nodes is the socket (its pipes, distribution set, acceptors,  *)
(* timers, id sequence and added_tokens); results holds the last call of   *)
(* ready: its token, what it returned and the pipes registered before it.  *)
(***************************************************************************)
MaxAcceptTokens == 4  \* tokens the id sequence hands out
MaxDrained == 2       \* connections drained by one acceptor readiness

\* SocketImpl::acceptor_ready: on_connections_accepted leaves the tokens in
\* added_tokens.
SocketImpl_acceptor_ready(S, tok, ok, opens, armOk) ==
    IF ok
    THEN LET r == on_connections_accepted(S, opens, armOk)
         IN  [r.sock EXCEPT !.added_tokens = Some(r.tokens)]
    ELSE on_acceptor_error(S, tok, armOk)

\* SocketImpl::pipe_ready with Pub::ready
SocketImpl_pipe_ready_of(S, tok, ok, armOk) ==
    IF tok \in DOMAIN S.pipes
    THEN IF ok THEN [S EXCEPT !.pipes[tok] = PipeAdvance(@)]
         ELSE on_pipe_error(S, tok, armOk)
    ELSE S

\* SocketImpl::ready: the call returns self.added_tokens.take().
SocketImpl_ready(S, tok, ok, opens, armOk) ==
    LET S1 == IF tok \in DOMAIN S.acceptors
              THEN SocketImpl_acceptor_ready(S, tok, ok, opens, armOk)
              ELSE SocketImpl_pipe_ready_of(S, tok, ok, armOk)
    IN  [sock |-> [S1 EXCEPT !.added_tokens = None], ret |-> S1.added_tokens]

\* The event loop calls ready for a token of the socket; the acceptor's
\* listener has drained Len(opens) connections.
accept_ready(tok, ok, opens, armOk) ==
    /\ tok \in DOMAIN nodes.acceptors \/ opens = << >>
    /\ nodes.idSeq + Len(opens) <= MaxAcceptTokens
    /\ LET r == SocketImpl_ready(nodes, tok, ok, opens, armOk)
       IN  /\ nodes' = r.sock
           /\ results' = << [tok |-> tok, acceptor |-> tok \in DOMAIN nodes.acceptors,
                             ok |-> ok, drained |-> Len(opens), ret |-> r.ret,
                             before |-> DOMAIN nodes.pipes, idSeq |-> nodes.idSeq] >>
           /\ UNCHANGED << wire, engineVars, pipeVars >>

\* The state after a successful Bind under token 0.
InitAccept ==
    /\ EngineIdle
    /\ PipeIdle
    /\ nodes = on_listener_created(
                   [pipes |-> << >>, dist |-> {}, acceptors |-> << >>,
                    timers |-> EmptyBag, idSeq |-> 1, added_tokens |-> None],
                   AddrTcp, 0, TRUE)
    /\ wire = << >>
    /\ results = << >>

NextAccept ==
    \E tok \in 0..(MaxAcceptTokens - 1), ok, armOk \in BOOLEAN,
       opens \in BoolSeqs(MaxDrained) : accept_ready(tok, ok, opens, armOk)

SpecAccept == InitAccept /\ [][NextAccept]_vars

(***************************************************************************)
(* The Pub policy on its own (src/src/protocol/pbu.rs): its pipe map and   *)
(* distribution set under any sequence of add_pipe, remove_pipe,           *)
(* on_pipe_opened, ready and destroy.  nodes is the policy; results holds  *)
(* the last call with the policy as it was before.                         *)
(***************************************************************************)
PolicyTokens == { 0, 1 }
PolicyAddrs == { None, Some(AddrTcp) }

\* Pub::add_pipe: the result of HashMap::insert decides what is returned.
Pub_add_pipe(S, tok, pipe) ==
    [sock |-> add_pipe(S, tok, pipe),
     res |-> IF tok \in DOMAIN S.pipes THEN "InvalidData" ELSE "Ok"]

\* Pub::destroy: the pipes are closed and the map is cleared.
Pub_destroy(S) == [S EXCEPT !.pipes = << >>]

PolicyStore(S, call) ==
    /\ nodes' = S
    /\ results' = << [call EXCEPT !.before = nodes] >>
    /\ UNCHANGED << wire, engineVars, pipeVars >>

PolicyCall(op, tok, res) == [op |-> op, tok |-> tok, res |-> res, before |-> << >>]

policy_add_pipe(tok, addr) ==
    LET r == Pub_add_pipe(nodes, tok, NewPipe(addr))
    IN  PolicyStore(r.sock, PolicyCall("add_pipe", tok, r.res))

policy_remove_pipe(tok) ==
    PolicyStore(remove_pipe(nodes, tok), PolicyCall("remove_pipe", tok, "Ok"))

policy_on_pipe_opened(tok) ==
    PolicyStore(Pub_on_pipe_opened([sock |-> nodes], tok).sock,
                PolicyCall("on_pipe_opened", tok, "Ok"))

\* Pub::ready: the pipe of the token, if any, is readied.
policy_ready(tok) ==
    PolicyStore(IF tok \in DOMAIN nodes.pipes
                THEN [nodes EXCEPT !.pipes[tok] = PipeAdvance(@)] ELSE nodes,
                PolicyCall("ready", tok, "Ok"))

policy_destroy ==
    PolicyStore(Pub_destroy(nodes), PolicyCall("destroy", 0, "Ok"))

\* Pub::new
InitPolicy ==
    /\ EngineIdle
    /\ PipeIdle
    /\ nodes = [pipes |-> << >>, dist |-> {}]
    /\ wire = << >>
    /\ results = << >>

NextPolicy ==
    \/ \E tok \in PolicyTokens, addr \in PolicyAddrs : policy_add_pipe(tok, addr)
    \/ \E tok \in PolicyTokens : policy_remove_pipe(tok)
    \/ \E tok \in PolicyTokens : policy_on_pipe_opened(tok)
    \/ \E tok \in PolicyTokens : policy_ready(tok)
    \/ policy_destroy

SpecPolicy == InitPolicy /\ [][NextPolicy]_vars

(***************************************************************************)
(* The second pipe state machine (transport/stream) beside the first       *)
(* (pipe.rs): the same operation is applied to a pipe of each design in    *)
(* Initial.                                                                *)
(***************************************************************************)

\* mio::PollOpt::level()
Level == { "level" }

\* transport::stream::Pipe::new: the pipe starts in Initial; registrations
\* are the registrations of its stream in the readiness registry, each with
\* its interest set and poll options.
StreamPipe_new(pids) ==
    [state |-> "Initial", proto_ids |-> pids, registrations |-> << >>]

\* transport::stream PipeState::error
StreamPipeState_error(S) == [S EXCEPT !.state = "Dead"]

\* transport::stream::transition_if_ok
stream_transition_if_ok(S, ok, to) ==
    IF ok THEN [S EXCEPT !.state = to] ELSE StreamPipeState_error(S)

\* transport::stream::initial::Initial::open: the stream is registered for
\* writable alone, level-triggered.
StreamInitial_open(S, regOk) ==
    stream_transition_if_ok(
        IF regOk
        THEN [S EXCEPT !.registrations =
                  Append(@, [interest |-> { "writable" }, poll |-> Level])]
        ELSE S,
        regOk, "HandshakeTx")

\* transport::stream::initial::Initial::recv
StreamInitial_recv(S) == S

\* transport::stream::initial::Initial::ready
StreamInitial_ready(S, events) == S

\* The registrations a pipe of the first design has made: pipe.rs registers
\* for error | hup | event with the poll options recorded in the registry.
Registrations(P) ==
    IF P.registry = None THEN << >>
    ELSE << [interest |-> { "error", "hup" } \cup ({ P.registry[1].interest } \ { "none" }),
             poll |-> P.registry[1].poll] >>

\* What is compared of a pipe after an operation: the name of its state and
\* the registrations made.
Outcome(state, registrations) == [state |-> state, registrations |-> registrations]

DesignsStore(P, S, op) ==
    /\ nodes' = [nodes EXCEPT !.first = P, !.second = S]
    /\ results' = << [op |-> op,
                      first |-> Outcome(P.state, Registrations(P)),
                      second |-> Outcome(S.state, S.registrations)] >>
    /\ UNCHANGED << wire, engineVars, pipeVars >>

BothInitial == nodes.first.state = "Initial" /\ nodes.second.state = "Initial"

\* Pipe::open of pipe.rs and PipeCmd::Open of transport/stream, with the
\* same answer of the registry.
designs_open(regOk) ==
    /\ BothInitial
    /\ DesignsStore(PipeState_open(nodes.first, regOk),
                    StreamInitial_open(nodes.second, regOk), "open")

\* Pipe::recv of pipe.rs and PipeCmd::Recv of transport/stream.
designs_recv ==
    /\ BothInitial
    /\ DesignsStore(PipeState_recv(nodes.first, 0, TRUE, 0, TRUE),
                    StreamInitial_recv(nodes.second), "recv")

\* Pipe::ready of pipe.rs and Endpoint::ready of transport/stream, for the
\* same events.
designs_ready(events) ==
    /\ BothInitial
    /\ DesignsStore(PipeState_ready(nodes.first, nodes.pids[1], nodes.pids[2],
                                    events, 0, TRUE, TRUE),
                    StreamInitial_ready(nodes.second, events), "ready")

\* A pipe of each design, for a socket of any type.
InitDesigns ==
    /\ EngineIdle
    /\ PipeIdle
    /\ \E t \in SocketTypes, p \in SocketTypes :
          nodes = [pids |-> << id(t), id(p) >>,
                   first |-> Pipe_new,
                   second |-> StreamPipe_new(<< id(t), id(p) >>)]
    /\ wire = << >>
    /\ results = << >>

NextDesigns ==
    \/ \E regOk \in BOOLEAN : designs_open(regOk)
    \/ designs_recv
    \/ \E events \in SUBSET { "readable", "writable" } : designs_ready(events)

SpecDesigns == InitDesigns /\ [][NextDesigns]_vars

(***************************************************************************)
(* Claims about the socket engine.                                         *)
(***************************************************************************)

\* C1: every SendMsg command processed by the socket gets exactly one reply,
\* MsgSent or MsgNotSent, whatever the result of arming the CancelSend
\* timer: at every moment a processed SendMsg either is parked in the
\* pending slot, its reply still to come, or has had its one reply.
C1_ExactlyOneSendReply == sendOwed = (IF pendingSend # None THEN 1 ELSE 0)

\* C5: every Connect and every Bind command gets exactly one reply
\* (Connected / NotConnected, Bound / NotBound) in the step that makes the
\* transport call.
C5_ConnectBindReplied == connOwed = 0

\* C6: when the CancelSend (CancelRecv) timer fires while a send (recv) is
\* pending, exactly one MsgNotSent (MsgNotRecv) carrying TimedOut is emitted
\* and the slot is cleared; a completion that arrives once the slot is clear
\* emits nothing.
C6_TimeoutStep ==
    /\ (on_send_timeout /\ pendingSend # None) =>
          /\ inbox' = Append(inbox, NotifyErr("MsgNotSent", "TimedOut"))
          /\ pendingSend' = None
    /\ (on_recv_timeout /\ pendingRecv) =>
          /\ inbox' = Append(inbox, NotifyErr("MsgNotRecv", "TimedOut"))
          /\ pendingRecv' = FALSE
    /\ ((\E tok \in sndSig : on_send_done(tok)) /\ pendingSend = None) => inbox' = inbox
    /\ ((\E tok \in rcvSig : on_recv_done(tok)) /\ ~pendingRecv) => inbox' = inbox

C6_TimeoutReply == [][C6_TimeoutStep]_vars

\* C6 witness: a send was parked, its timer fired, and the late completion
\* signal of the pipe is still to come.
C6_Witness ==
    /\ inbox # << >>
    /\ inbox[Len(inbox)] = NotifyErr("MsgNotSent", "TimedOut")
    /\ pendingSend = None
    /\ sndSig # {}

\* C7: at most one CancelSend and one CancelRecv timer is armed, and none is
\* armed once the reply of its operation has been emitted.
C7_OneTimerPerOperation ==
    /\ CopiesIn(CancelSendT, timers) <= 1
    /\ CopiesIn(CancelRecvT, timers) <= 1
    /\ sendOwed = 0 => ~BagIn(CancelSendT, timers)
    /\ recvOwed = 0 => ~BagIn(CancelRecvT, timers)

\* The delay the options ask for: the option when set, else the default.
ExpectedDelay(kind) ==
    IF kind = "CancelSend"
    THEN (IF sendTimeoutOpt # None THEN sendTimeoutOpt[1] ELSE SendTimeoutMs)
    ELSE (IF recvTimeoutOpt # None THEN recvTimeoutOpt[1] ELSE RecvTimeoutMs)

\* C8: a CancelSend (CancelRecv) timer is armed with the SendTimeout
\* (RecvTimeout) option as its delay when the option has been set, and with
\* 1000 ms only when it is unset.
C8_DelayFromOption ==
    [][\A t \in BagToSet(timers') :
          (t.kind \in { "CancelSend", "CancelRecv" }
             /\ CopiesIn(t, timers') > CopiesIn(t, timers))
          => t.delay = ExpectedDelay(t.kind)]_vars

\* C9: a Reconnect timer that fires is either followed by a registered pipe
\* with its token (the attempt succeeded) or armed again with the same token
\* and address (the attempt failed): reconnection never stops.
C9_ReconnectNeverStops ==
    [][\A t \in BagToSet(timers) :
          (t.kind = "Reconnect" /\ CopiesIn(t, timers') < CopiesIn(t, timers))
          => (panicked' \/ t.tok[1] \in DOMAIN pipes')]_vars

\* C10: a Rebind timer that fires is either followed by a registered
\* acceptor with its token or armed again with the same token and address.
C10_RebindNeverStops ==
    [][\A t \in BagToSet(timers) :
          (t.kind = "Rebind" /\ CopiesIn(t, timers') < CopiesIn(t, timers))
          => (panicked' \/ t.tok[1] \in DOMAIN acceptors')]_vars

\* What on_pipe_error leaves of the socket when it handles the error of the
\* registered pipe tok, given whether the Reconnect timeout is to be armed.
AfterPipeError(tok, armed) ==
    /\ tok \notin DOMAIN pipes'
    /\ tok \notin dist'
    /\ timers' = IF armed
                 THEN timers (+) SetToBag({ ReconnectT(tok, pipes[tok].addr[1]) })
                 ELSE timers
    /\ inbox' = inbox
    /\ \A other \in DOMAIN pipes \ { tok } :
          other \in DOMAIN pipes' /\ pipes'[other] = pipes[other]
    /\ DOMAIN pipes' \subseteq DOMAIN pipes
    /\ acceptors' = acceptors

\* C11: when on_pipe_error handles a transport error of a registered pipe,
\* the pipe is removed from the socket, a Reconnect timer is armed if and
\* only if the pipe has an origin address, no reply is emitted, and the other
\* pipes and the acceptors are unchanged.
C11_PipeErrorIsLocal ==
    [][\A tok \in DOMAIN pipes :
          (~panicked /\ \E k \in BOOLEAN : pipe_ready(tok, FALSE, k))
          => AfterPipeError(tok, pipes[tok].addr # None)]_vars

\* The ordinals are increasing: no message twice, and in the order sent.
Increasing(q) == \A i, j \in DOMAIN q : i < j => q[i] < q[j]

\* A step that processes a SendMsg command, and one in which Pub::send ran
\* (its MsgSent is on the reply channel).
SendStep == nSent' = nSent + 1
PubSendRan == SendStep /\ Len(inbox') = Len(inbox) + 1

\* C12: each Pub send hands the message exactly once to every pipe of the
\* distribution set that is registered at that moment and to no other pipe,
\* nothing else hands a message to a pipe, and so every pipe is handed each
\* message at most once and in the order of the sends.
C12_PubBroadcast ==
    /\ [](\A t \in DOMAIN handedTo : Increasing(handedTo[t]))
    /\ [][\A t \in DOMAIN handedTo :
             handedTo'[t] = IF PubSendRan /\ t \in dist /\ t \in DOMAIN pipes
                            THEN Append(handedTo[t], nSent')
                            ELSE handedTo[t]]_vars

\* C12 witness: two sends, both handed in order to the opened pipe 0 and
\* neither to pipe 1, registered but not reported opened.
C12_Witness ==
    /\ handedTo[0] = << 1, 2 >>
    /\ 1 \in DOMAIN pipes
    /\ handedTo[1] = << >>

\* C13: a Pub send never parks: in every state of the Pub socket the step
\* that processes the send command emits MsgSent, and a later on_send_done
\* or on_send_timeout emits nothing.
C13_PubSendNeverParks ==
    [][stype = "Pub" =>
          /\ (\E m \in Msgs, k \in BOOLEAN : send(m, k)) =>
                /\ inbox' = Append(inbox, Notify("MsgSent"))
                /\ pendingSend' = None
          /\ (\E tok \in sndSig : on_send_done(tok)) => inbox' = inbox
          /\ on_send_timeout => inbox' = inbox]_vars

\* C14: a recv on a Pub socket is answered in the step that processes it with
\* exactly one MsgNotRecv of kind Other, in every state of the socket; the
\* pipe set and the distribution set are unchanged, and a later on_recv_done
\* or on_recv_timeout emits nothing.
C14_PubRecvNotSupported ==
    [][stype = "Pub" =>
          /\ (\E k \in BOOLEAN : recv(k)) =>
                /\ inbox' = Append(inbox, NotifyErr("MsgNotRecv", "Other"))
                /\ pipes' = pipes
                /\ dist' = dist
          /\ (\E tok \in rcvSig : on_recv_done(tok)) => inbox' = inbox
          /\ on_recv_timeout => inbox' = inbox]_vars

(***************************************************************************)
(* Claims about the sockets joined by pipes.                               *)
(***************************************************************************)
IsPrefix(p, b) == Len(p) <= Len(b) /\ \A i \in 1..Len(p) : b[i] = p[i]
Ordinals(rs) == LET got == SelectSeq(rs, LAMBDA r : r.kind = "MsgRecv")
                IN  [i \in DOMAIN got |-> got[i].n]

\* C15: the Sub socket returns a received message from recv if and only if
\* one of the prefixes subscribed at that moment is a prefix of its body
\* (the empty prefix matches every body, no subscription matches none); a
\* message that matches no subscription is dropped, the recv stays parked
\* and can then only end with TimedOut; the messages returned keep the order
\* in which the Pub peer sent them, none returned twice.
C15_SubFilter ==
    /\ [][LET rs == results["sub"]
              w == wire[<< "pub", "sub" >>]
          IN  results'["sub"] =
                 IF sub_on_recv_done
                 THEN IF \E p \in nodes["sub"].subs : IsPrefix(p, Head(w).body)
                      THEN Append(rs, MsgRecv(Head(w)))
                      ELSE rs
                 ELSE IF sub_on_recv_timeout /\ nodes["sub"].pr
                      THEN Append(rs, TimedOut)
                      ELSE rs]_vars
    /\ [][sub_on_recv_done =>
             wire'[<< "pub", "sub" >>] = Tail(wire[<< "pub", "sub" >>])]_vars
    /\ [](Increasing(Ordinals(results["sub"])))

\* The first message was returned, the second was dropped, and the recv it
\* was dropped under ended with TimedOut.
C15_Witness ==
    /\ nodes["pub"].nsent = 2
    /\ wire[<< "pub", "sub" >>] = << >>
    /\ Len(results["sub"]) = 2
    /\ results["sub"][1].kind = "MsgRecv"
    /\ results["sub"][1].n = 1
    /\ results["sub"][2] = TimedOut

\* C16: with two Req clients on one Rep server, under every interleaving of
\* requests, recvs and replies, a recv of client c returns a reply only if
\* the server wrote that reply on the pipe of c, to a request that came in
\* on that pipe, with the request id of the request c has outstanding, and
\* the body returned is the body the server sent: no client receives a
\* reply to a request of the other client.
C16_ReqRepCorrelation ==
    [][\A c \in Clients :
          LET rs == results[c]
          IN  \/ results'[c] = rs
              \/ Len(results'[c]) = Len(rs) + 1 /\
                 LET r == results'[c][Len(rs) + 1]
                 IN  r.kind = "MsgRecv" =>
                        /\ r.n[1] = "rep"
                        /\ nodes[c].outstanding # None
                        /\ LET h == nodes["rep"].replied[r.n[2]]
                           IN  /\ h.to = c
                               /\ h.re[1] = c
                               /\ h.id = nodes[c].outstanding[1].id
                               /\ h.body = r.body]_vars

\* Both clients have sent a request with the same request id, and each has
\* got its reply.
C16_Witness ==
    /\ \A c \in Clients :
          \E i \in DOMAIN results[c] : results[c][i].kind = "MsgRecv"
    /\ Len(nodes["rep"].replied) = 2
    /\ nodes["rep"].replied[1].id = nodes["rep"].replied[2].id

\* C17: a send on the Rep socket while no (request id, pipe) pair is recorded
\* is answered in the step that processes it with MsgNotSent of kind Other,
\* writes on no pipe and leaves the backlog as it is.
C17_RepSendWithoutRequest ==
    [][(nodes["rep"].pair = None /\
        \E body \in RepBodies, k \in BOOLEAN : rep_send(body, k)) =>
          /\ results'["rep"] = Append(results["rep"], NotSent("Other"))
          /\ wire' = wire
          /\ nodes'["rep"].backlog = nodes["rep"].backlog]_vars

\* C18: once the survey deadline timer has fired, the recv in progress fails
\* with the deadline error (kind Other), and every later recv on the
\* Surveyor fails with that error, a response to the survey arriving or not,
\* until the next send starts a new survey.
C18_SurveyDeadline ==
    [][LET N == nodes["surv"]
           failed == Append(results["surv"], NotRecv("Other"))
       IN  /\ (surv_on_survey_timeout /\ N.pr) => results'["surv"] = failed
           /\ (N.expired /\ \E k \in BOOLEAN : surv_recv(k)) => results'["surv"] = failed
           /\ (N.expired /\ ~nodes'["surv"].expired) =>
                 \E body \in SurveyBodies : surv_send(body, TRUE)]_vars

\* The send slot of the Push socket holds a send that was parked.
ParkedSend == nodes["push"].ps # None /\ nodes["push"].ps[1].parked

\* What the Pull socket returned is the beginning of what the Push socket
\* wrote: the same messages with the same bodies, in order.
PullGotWhatPushWrote ==
    LET got == SelectSeq(results["pull"], LAMBDA r : r.kind = "MsgRecv")
        written == nodes["push"].written
    IN  /\ Len(got) <= Len(written)
        /\ \A i \in DOMAIN got : got[i] = MsgRecv(written[i])

\* A parked send is released by the opening of the pipe: the message is
\* written to that pipe.
ParkedSendWritten ==
    [][(ParkedSend /\ nodes["push"].ps[1].on = None /\ push_on_pipe_opened) =>
          /\ wire'[<< "push", "pull" >>] =
                Append(wire[<< "push", "pull" >>], nodes["push"].ps[1].msg)
          /\ nodes'["push"].ps[1].on = Some("pull")]_vars

\* Every reply of the Push socket answers the send of the send slot and
\* empties the slot: a send has one reply at most.
OneReplyPerSend ==
    [][results'["push"] # results["push"] =>
          /\ nodes["push"].ps # None
          /\ nodes'["push"].ps = None
          /\ Len(results'["push"]) = Len(results["push"]) + 1]_vars

WrittenOn(name, toks, msg) ==
    \A l \in DOMAIN wire :
        wire'[l] = IF l[1] = name /\ l[2] \in toks THEN Append(wire[l], msg) ELSE wire[l]

\* C20: a message sent by a Bus socket is handed to every opened pipe of
\* that socket; a message the server received on pipe P and forwards is
\* sent on every opened pipe except P; so a message of a client reaches the
\* other client through the forwarding server and never comes back to the
\* client that sent it.
C20_BusNoEcho ==
    /\ [][\A name \in DOMAIN nodes, body \in BusBodies :
             bus_send(name, body, TRUE) =>
                WrittenOn(name, nodes[name].opened,
                          [n |-> << name, nodes[name].nsent + 1 >>, hdr |-> << >>,
                           body |-> body])]_vars
    /\ [][bus_forward(TRUE) =>
             LET r == results["srv"][Len(results["srv"])]
             IN  WrittenOn("srv", nodes["srv"].opened \ { r.from },
                           [n |-> r.n, hdr |-> << >>, body |-> r.body])]_vars
    /\ [](\A c \in BusClients :
             \A i \in DOMAIN results[c] :
                 results[c][i].kind = "MsgRecv" => results[c][i].n[1] # c)

\* The server has forwarded the message of client b1 with both pipes
\* opened, client b2 has received it, and client b1 has waited for a
\* message in vain.
C20_Witness ==
    /\ nodes["srv"].opened = BusClients
    /\ \E i \in DOMAIN results["b2"] :
          results["b2"][i].kind = "MsgRecv" /\ results["b2"][i].n = << "b1", 1 >>
    /\ results["b1"] = << MsgSent, TimedOut >>
    /\ results["srv"][Len(results["srv"])] = MsgSent

(***************************************************************************)
(* Claims about the pipe.                                                  *)
(***************************************************************************)

\* The bodies of the MsgRcv signals the pipe sent, in order.
Received == [i \in DOMAIN signals |-> signals[i].body]

\* C2: framing round trip with FIFO order: however the transport splits the
\* byte stream into reads, the MsgRcv bodies are the bodies the peer framed,
\* in order, and once every byte of the stream has been read every body has
\* been delivered.  The pipe has read the peer's whole handshake first.
C2_FramingRoundTrip ==
    (pstate = "Idle" /\ rxBytes = Some(create_handshake(id(peerType)))) =>
        /\ Len(Received) <= Len(bodies)
        /\ Received = SubSeq(bodies, 1, Len(Received))
        /\ stream = << >> => Received = bodies

\* C3: a pipe of an A socket whose peer sends the handshake of type B is in
\* Idle only if A.matches(B); when the types do not match, the pipe that has
\* read the peer's handshake is Dead.
C3_IdleOnlyIfMatches ==
    /\ pstate = "Idle" => matches(ptype, peerType)
    /\ (rxBytes # None /\ ~matches(ptype, peerType)) => pstate = "Dead"

\* C3 witness: the pipe of a Sub socket has read the whole handshake of a
\* Push peer and is Dead.
C3_Witness ==
    /\ ptype = "Sub"
    /\ peerType = "Push"
    /\ rxBytes = Some(create_handshake(id("Push")))
    /\ pstate = "Dead"

\* C4: a pipe in Idle has emitted exactly one Opened event, at the
\* transition from HandshakeRx.
C4_OpenedOnIdle ==
    pstate = "Idle" =>
        Cardinality({ i \in DOMAIN signals : signals[i].kind = "Opened" }) = 1

(***************************************************************************)
(* Claims about the id sequence, the socket types and the facade.          *)
(***************************************************************************)

\* C21: all clones of an IdSequence share one counter: whatever handle each
\* call is made on, the k-th call of next() overall returns k-1, so the
\* values are strictly increasing in call order and none is returned twice;
\* the tokens of accepted pipes, taken from the sequence, are pairwise
\* distinct.
C21_SharedCounter ==
    /\ \A k \in DOMAIN results : results[k].id = k - 1
    /\ \A i, j \in DOMAIN results : i < j => results[i].id < results[j].id
    /\ \A i, j \in DOMAIN results :
          (i # j /\ results[i].accepted /\ results[j].accepted) =>
              results[i].id # results[j].id

\* C21 witness: a call on the clone, a call on the original, then two pipes
\* accepted by the socket, which holds a third handle.
C21_Witness ==
    /\ Len(results) = MaxNextCalls
    /\ results[1].h = "other"
    /\ results[2].h = "seq"
    /\ results[3].accepted
    /\ results[4].accepted

\* The compatible pairs of socket types.
CompatiblePairs ==
    { { "Pair" }, { "Pub", "Sub" }, { "Req", "Rep" }, { "Push", "Pull" },
      { "Surveyor", "Respondent" }, { "Bus" } }

\* C22: for any two socket types a and b, a.matches(b) holds if and only if
\* each names the other as peer; matches is symmetric, peer is an
\* involution, different types have different protocol ids, and the pairs
\* that match are exactly Pair-Pair, Pub-Sub, Req-Rep, Push-Pull,
\* Surveyor-Respondent and Bus-Bus.
C22_Compatibility ==
    LET a == get_socket_type(nodes["self"])
        b == get_socket_type(nodes["other"])
    IN  /\ Len(results) >= 1 => (results[1] <=> (peer(a) = b /\ peer(b) = a))
        /\ Len(results) >= 1 => (results[1] <=> ({ a, b } \in CompatiblePairs))
        /\ Len(results) = 2 => (results[1] <=> results[2])
        /\ peer(peer(a)) = a
        /\ peer(peer(b)) = b
        /\ a # b => id(a) # id(b)
        /\ id(a) \in 0..65535

\* C22 witness: a Surveyor and a Respondent have each been found to match
\* the other.
C22_Witness ==
    /\ get_socket_type(nodes["self"]) = "Surveyor"
    /\ get_socket_type(nodes["other"]) = "Respondent"
    /\ results = << TRUE, TRUE >>

\* A call is made on the facade in this step.
FacadeCalled ==
    /\ nodes["facade"].awaiting = "none"
    /\ nodes'["facade"].calls = nodes["facade"].calls + 1

\* The call made in this step returned at once, with an error of this kind,
\* and touched neither the command queue nor the reply channel.
ReturnedAtOnce(kinds) ==
    /\ Len(results'["facade"]) = Len(results["facade"]) + 1
    /\ LET r == results'["facade"][Len(results'["facade"])]
       IN  r.err # None /\ r.err[1].kind \in kinds
    /\ nodes'["facade"].awaiting = "none"
    /\ wire' = wire

QueueFull == Len(wire[CmdLink]) >= NotifyCapacity
ChannelClosed == nodes["loop"].closed

C23_Step ==
    FacadeCalled =>
        /\ (QueueFull /\ ~ChannelClosed) => ReturnedAtOnce({ "WouldBlock" })
        /\ (ChannelClosed /\ ~QueueFull) => ReturnedAtOnce({ "Other" })
        /\ (ChannelClosed /\ QueueFull) => ReturnedAtOnce({ "WouldBlock", "Other" })

\* C23: a facade call (connect, bind, send_msg, recv_msg, set_option) made
\* while the command queue is full returns an error of kind WouldBlock, and
\* one made while the command channel is closed an error of kind Other; in
\* both cases no command is queued and nothing is awaited or taken from the
\* reply channel.
C23_FullQueueWouldBlock == [][C23_Step]_vars

\* C23 witness: a send_msg made while the queue was full returned
\* WouldBlock, and a recv_msg made after the event loop ended returned Other.
C23_Witness ==
    /\ results["facade"] =
          << Returned("SendMsg", Some(IoError("WouldBlock", "cmd channel full"))),
             Returned("RecvMsg", Some(other_io_error("cmd channel closed"))) >>
    /\ ChannelClosed
    /\ ~QueueFull

\* The command is answered with an InvalidInput error of this kind, the
\* engine keeps running and the socket's pipes, acceptors and timers are
\* unchanged.
RefusedAsInvalidInput(kind) ==
    /\ ~panicked'
    /\ inbox' = Append(inbox, NotifyErr(kind, "InvalidInput"))
    /\ pipes' = pipes
    /\ acceptors' = acceptors
    /\ timers' = timers

C24_Step ==
    /\ (\E c, o \in BOOLEAN : connect(AddrNoSep, c, o)) =>
           RefusedAsInvalidInput("NotConnected")
    /\ (\E c, o \in BOOLEAN : bind(AddrNoSep, c, o)) =>
           RefusedAsInvalidInput("NotBound")

\* C24: a Connect (Bind) command whose address does not contain the
\* separator "://" is answered with NotConnected (NotBound) carrying an
\* InvalidInput error; the engine keeps running and the socket's pipes,
\* acceptors and timers are unchanged.
C24_MalformedAddress == [][C24_Step]_vars

(***************************************************************************)
(* Claims about the pipe and the socket that owns it.                      *)
(***************************************************************************)

\* The pipe is in the pipe set of its socket.
InPipeSet == 0 \in DOMAIN nodes["socket"].pipes

\* C25: a pipe that an I/O failure (registration, handshake write, handshake
\* read or check, message read) has taken to Dead does not stay in the pipe
\* set of its socket: the failure reaches the socket, which removes it.
C25_DeadPipeLeavesPipeSet == (pstate = "Dead" /\ InPipeSet) ~> ~InPipeSet

LiveStates == { "HandshakeTx", "HandshakeRx", "Idle" }

\* Pipe::open is called on the pipe in Initial in this step.
OpenedFromInitial == pstate = "Initial" /\ (\E regOk \in BOOLEAN : Pipe_open(regOk))

C26_OpenStep ==
    OpenedFromInitial =>
        \/ /\ pstate' = "HandshakeTx"
           /\ registry' = Some([interest |-> "writable", poll |-> EdgeOneshot,
                                armed |-> TRUE, registered |-> 1,
                                reregistered |-> FALSE])
        \/ /\ pstate' = "Dead"
           /\ registry' = None

C26_OneRegistration ==
    /\ pstate = "Initial" => registry = None
    /\ pstate \in LiveStates => (registry # None /\ registry[1].registered = 1)
    /\ registry # None => registry[1].registered = 1

\* C26: opening a pipe in Initial registers its stream once, for writable,
\* without re-registering, and moves the pipe to HandshakeTx, or to Dead
\* when the registration fails; afterwards the pipe only re-registers, so
\* that a live opened pipe has exactly one registration.
C26_RegisteredOnce == [][C26_OpenStep]_vars /\ []C26_OneRegistration

\* C26 witness: a pipe has gone through the handshake to Idle, re-registering
\* on the way, and still has the one registration of its opening.
C26_Witness ==
    /\ pstate = "Idle"
    /\ registry # None
    /\ registry[1].registered = 1
    /\ registry[1].reregistered

\* The handshake frame of a protocol id: 0x00, 'S', 'P', 0x00, the id in
\* big-endian order, 0x00, 0x00.
HandshakeFrame(protocol_id) ==
    << 0, 83, 80, 0, protocol_id \div 256, protocol_id % 256, 0, 0 >>

\* A writable event is handled by the pipe in HandshakeTx in this step; the
\* transport takes n bytes, or fails.
WritableInHandshakeTx(n, ioOk) ==
    /\ pstate = "HandshakeTx"
    /\ \E regOk \in BOOLEAN : Pipe_ready({ "writable" }, n, ioOk, regOk)

C27_WriteStep ==
    /\ \A n \in 0..8, ioOk \in BOOLEAN :
          WritableInHandshakeTx(n, ioOk) =>
              /\ wrote' = IF ioOk THEN SubSeq(HandshakeFrame(id(ptype)), 1, n) ELSE << >>
              /\ (n < 8 \/ ~ioOk) => pstate' = "Dead"
              /\ pstate' \in { "HandshakeRx", "Dead" }
              /\ pstate' = "HandshakeRx" =>
                     /\ registry'[1].interest = "readable"
                     /\ registry'[1].armed
    /\ pstate' = "HandshakeRx" => pstate \in { "HandshakeTx", "HandshakeRx" }

\* Protocol ids at the ends and at the byte boundaries of the 16-bit range.
SampleIds == { 0, 1, 99, 255, 256, 257, 4660, 65280, 65535 }

C27_FrameSent ==
    /\ \A v \in SampleIds \cup { id(t) : t \in SocketTypes } :
          create_handshake(v) = HandshakeFrame(v)
    /\ pstate \in { "Initial", "HandshakeTx" } => wrote = << >>
    /\ pstate \in { "HandshakeRx", "Idle" } => wrote = HandshakeFrame(id(ptype))

\* C27: in HandshakeTx a writable event makes the pipe write the frame
\* 0x00 'S' 'P' 0x00 id_hi id_lo 0x00 0x00 of its own protocol id; when the
\* transport takes all 8 bytes the pipe re-registers for readable and moves
\* to HandshakeRx; when it takes fewer or would block the pipe goes to Dead,
\* and a pipe is in HandshakeRx only with the whole frame written.
C27_HandshakeSent == [][C27_WriteStep]_vars /\ []C27_FrameSent

\* C27 witness: the pipe of a Respondent socket has written its whole frame
\* and waits in HandshakeRx for a readable event.
C27_Witness ==
    /\ ptype = "Respondent"
    /\ pstate = "HandshakeRx"
    /\ wrote = << 0, 83, 80, 0, 0, 99, 0, 0 >>
    /\ registry[1].interest = "readable"
    /\ registry[1].armed

\* C28: a pipe moves from HandshakeRx to Idle only after the 8 bytes of the peer's handshake have
\* been consumed from the stream, and the bytes consumed equal the expected
\* frame with the peer protocol id; a read of fewer than 8 bytes never takes
\* the pipe to Idle.
C28_Step ==
    (pstate = "HandshakeRx" /\ pstate' = "Idle") =>
        /\ Len(stream) >= 8
        /\ stream' = Drop(stream, 8)
        /\ rxBytes' = Some(HandshakeFrame(id(peer(ptype))))

C28_IdleAfterWholeHandshake == [][C28_Step]_vars

\* The interest a pipe that is not Dead still needs: writable until its
\* handshake is written, readable afterwards.
NeededInterest ==
    IF pstate = "HandshakeTx" THEN "writable" ELSE "readable"

\* C29: every registration is edge-triggered and one-shot, and after every
\* step that leaves the pipe in HandshakeTx, HandshakeRx or Idle the pipe
\* holds an armed registration for the interest it still needs.
C29_ArmedForNeededInterest ==
    /\ registry # None => registry[1].poll = EdgeOneshot
    /\ pstate \in LiveStates =>
          /\ registry # None
          /\ registry[1].armed
          /\ registry[1].interest = NeededInterest

\* What PipeState::ready does with a readable event on the pipe as it is.
OnReadable(n) ==
    PipeState_ready(ThePipe, id(ptype), id(peer(ptype)), { "readable" }, n, TRUE, TRUE)

\* C30: in Idle a readable event starts the reception of the incoming
\* message: the pipe leaves Idle for RecvBusy, or, the whole message being
\* available, emits MsgRcv and stays in Idle.
C30_ReadableStartsReception ==
    (pstate = "Idle" /\ stream # << >>) =>
        \A n \in 1..Len(stream) :
            \/ OnReadable(n).state = "RecvBusy"
            \/ /\ OnReadable(n).state = "Idle"
               /\ Len(OnReadable(n).signals) = Len(signals) + 1
               /\ OnReadable(n).signals[Len(signals) + 1].kind = "MsgRcv"


(***************************************************************************)
(* Claims about the receive operation.                                     *)
(***************************************************************************)

OpRank(step) ==
    CASE step = "Prefix" -> 0
      [] step = "Payload" -> 1
      [] step = "Done" -> 2

\* The big-endian value of an 8-byte prefix, for the values below 2^24.
PrefixValue(prefix) == prefix[6] * 65536 + prefix[7] * 256 + prefix[8]

\* What a call of recv on the operation must have done, the operation,
\* the connection and the result being those before and after the call.
RecvPost(op, conn, op2, conn2, call) ==
    LET used == Len(conn) - Len(conn2)
        missing == 8 - op.read
    IN  /\ OpRank(op2.step) >= OpRank(op.step)
        /\ conn2 = Drop(conn, used)
        /\ (op.step = "Prefix" /\ op2.step # "Prefix") =>
               /\ used >= missing
               /\ op2.prefix = Take(op.prefix, op.read) \o Take(conn, missing)
               /\ op2.msg_len = (IF \A i \in 1..5 : op2.prefix[i] = 0
                                 THEN Min(PrefixValue(op2.prefix), LenCap)
                                 ELSE LenCap)
               /\ op2.step = "Payload" => op2.read = used - missing
               /\ op2.step = "Done" => used = missing + op2.msg_len
        /\ (op.step = "Prefix" /\ op2.step = "Prefix") =>
               /\ op2.read = op.read + used
               /\ op2.read < 8
        /\ (op.step = "Payload" /\ op2.step = "Payload") =>
               /\ op2.read = op.read + used
               /\ op2.read < op2.msg_len
        /\ (op.step = "Payload" /\ op2.step = "Done") =>
               used = op.msg_len - op.read
        /\ op2.step = "Done" => op2.read = 0
        /\ call.res = "Some" <=> (op.step # "Done" /\ op2.step = "Done")
        /\ call.res = "Some" =>
               /\ Len(call.msg) = op2.msg_len
               /\ call.msg = (IF op.step = "Prefix" THEN << >> ELSE op.buffer[1])
                                \o SubSeq(conn, used - (op2.msg_len - Len(
                                       IF op.step = "Prefix" THEN << >> ELSE op.buffer[1])) + 1,
                                          used)
        /\ op.step = "Done" => (call.res = "Err" /\ op2 = op /\ used = 0)

\* The last call was a call of recv on the operation the caller keeps.
CalledRecv == IF results = << >> THEN FALSE ELSE results[1].res # "Pipe::recv"

\* A step of recv: the peer's writes leave the result alone and a new
\* operation has no result.
C31_Step ==
    (nodes'.written = nodes.written /\ nodes'.closed = nodes.closed /\ CalledRecv') =>
        RecvPost(nodes.op, nodes.conn, nodes'.op, nodes'.conn, results'[1])

\* The cursor stays within the buffer of the current step.
C31_Cursor ==
    /\ nodes.op.step = "Prefix" => nodes.op.read \in 0..7
    /\ nodes.op.step = "Payload" => nodes.op.read \in 0..nodes.op.msg_len
    /\ (nodes.op.step = "Payload" /\ nodes.op.buffer # None) =>
           Len(nodes.op.buffer[1]) = nodes.op.read
    /\ nodes.op.step = "Done" => nodes.op.read = 0

\* C31: a RecvOperation goes from Prefix to Payload only with 8 prefix bytes
\* read and from Payload to Done only with msg_len payload bytes read, never
\* backwards; the cursor restarts at 0 at each advance and stays within the
\* current buffer; recv returns a message only at the advance to Done, its
\* body being the msg_len bytes after the prefix, msg_len the big-endian
\* value of the prefix; recv after Done returns an error.
C31_RecvOperationSteps == [][C31_Step]_vars /\ []C31_Cursor

\* C31 witness: a message of two bytes has been received and recv, called
\* again on the completed operation, has returned an error.
C31_Witness ==
    /\ CalledRecv
    /\ results[1].res = "Err"
    /\ nodes.op.step = "Done"
    /\ nodes.op.msg_len = 2


\* A call of recv on an operation at Prefix or Payload whose buffer is in
\* place, by the reads it made.
C32_OpStep ==
    (/\ CalledRecv'
     /\ nodes'.written = nodes.written
     /\ nodes'.closed = nodes.closed
     /\ nodes.op.step # "Done"
     /\ nodes.op.step = "Payload" => nodes.op.buffer # None) =>
        LET call == results'[1]
        IN  /\ call.reads.first = "zero" =>
                   /\ call.res = "None"
                   /\ nodes'.op = nodes.op
                   /\ nodes'.conn = nodes.conn
            /\ call.reads.first = "error" => call.res = "Err"
            /\ call.reads.second = "zero" =>
                   /\ call.res = "None"
                   /\ nodes'.op.step = "Payload"
                   /\ nodes'.op.read = 0
                   /\ nodes'.conn = Drop(nodes.conn, 8 - nodes.op.read)
            /\ call.reads.second = "error" => call.res = "Err"
            /\ (/\ nodes.op.step = "Prefix"
                /\ nodes'.op.step # "Prefix"
                /\ nodes'.op.prefix = Zeros(8)) =>
                   /\ call.reads.second = "none"
                   /\ call.res = "Some"
                   /\ call.msg = << >>
                   /\ nodes'.conn = Drop(nodes.conn, 8 - nodes.op.read)

\* A call of Pipe::recv on the pipe in Idle, by the reads it made.
C32_PipeStep ==
    (/\ results' # << >>
     /\ results'[1].res = "Pipe::recv"
     /\ nodes'.written = nodes.written
     /\ nodes'.closed = nodes.closed
     /\ nodes.state = "Idle") =>
        LET reads == results'[1].reads
        IN  /\ reads.first = "zero" => nodes' = nodes
            /\ reads.second = "zero" =>
                   /\ nodes'.state = "Idle"
                   /\ nodes'.signals = nodes.signals
            /\ (reads.first = "error" \/ reads.second = "error") =>
                   /\ nodes'.state = "Dead"
                   /\ nodes'.signals = nodes.signals
            /\ (nodes.closed /\ nodes.conn = << >>) => nodes'.state = "Dead"
            /\ (reads.first = "data" /\ Len(nodes.conn) - Len(nodes'.conn) >= 8
                   /\ Take(nodes.conn, 8) = Zeros(8)) =>
                   /\ reads.second = "none"
                   /\ nodes'.state = "Idle"
                   /\ nodes'.signals =
                         Append(nodes.signals, [kind |-> "MsgRcv", body |-> << >>])
                   /\ nodes'.conn = Drop(nodes.conn, 8)

\* C32: a read of zero bytes, or one that would block, at Prefix or Payload
\* gives "no message yet" and changes neither the step, nor the cursor, nor
\* the state of the pipe; an error of the transport, the end of the stream
\* included, takes the pipe to Dead; a frame whose prefix is zero gives an
\* empty message with no further read.
C32_ZeroReadIsNoMessage == [][C32_OpStep /\ C32_PipeStep]_vars

\* C32 witness: the pipe has received an empty message, and a later recv,
\* at the end of the stream the peer closed, has taken it to Dead.
C32_Witness ==
    /\ nodes.reader = "pipe"
    /\ nodes.closed
    /\ nodes.conn = << >>
    /\ nodes.state = "Dead"
    /\ nodes.signals = << [kind |-> "MsgRcv", body |-> << >>] >>


(***************************************************************************)
(* Claims about the socket and its endpoints.                              *)
(***************************************************************************)

\* The tokens a call of ready returned.
Returned_tokens(call) ==
    IF call.ret = None THEN {} ELSE { call.ret[1][i] : i \in DOMAIN call.ret[1] }

\* C33: each connection drained from a ready acceptor gets a fresh token
\* and a pipe without origin address registered in the protocol; the tokens
\* SocketImpl::ready returns are exactly the tokens of the pipes registered
\* by that call, and a call for a pipe, or for an acceptor that accepted
\* nothing, returns no token of an earlier call.
C33_ReturnedTokensAreRegistered ==
    results # << >> =>
        LET call == results[1]
        IN  /\ Returned_tokens(call) = DOMAIN nodes.pipes \ call.before
            /\ \A t \in Returned_tokens(call) :
                   /\ t >= call.idSeq
                   /\ nodes.pipes[t].addr = None
            /\ (call.acceptor /\ call.ok) =>
                   /\ call.ret # None
                   /\ Len(call.ret[1]) = call.drained
                   /\ Cardinality(Returned_tokens(call)) = call.drained
            /\ (~call.acceptor \/ call.drained = 0) => Returned_tokens(call) = {}
            /\ nodes.added_tokens = None


\* C34: in the Pub policy every token of the distribution set is the key of
\* a registered pipe, after any sequence of operations.
C34_DistWithinPipes == dist \subseteq DOMAIN pipes


\* C35: add_pipe with a token that is already a key of the pipe map returns
\* InvalidData and leaves the policy as it was, the pipe registered before
\* still being the one registered; add_pipe with a new token returns Ok and
\* adds exactly that pipe.
C35_AddPipeTwice ==
    (results # << >> /\ results[1].op = "add_pipe") =>
        LET call == results[1]
        IN  IF call.tok \in DOMAIN call.before.pipes
            THEN call.res = "InvalidData" /\ nodes = call.before
            ELSE /\ call.res = "Ok"
                 /\ DOMAIN nodes.pipes = DOMAIN call.before.pipes \cup { call.tok }
                 /\ \A t \in DOMAIN call.before.pipes :
                        nodes.pipes[t] = call.before.pipes[t]
                 /\ nodes.dist = call.before.dist


\* The tokens of the endpoints the pending Reconnect and Rebind timeouts
\* will replace.
TokensToReplace == { t.tok[1] : t \in { x \in BagToSet(timers) : x.tok # None } }

\* C36: no token is at once the key of an acceptor and the key of a pipe,
\* and no two endpoints share a token: every live endpoint holds a token
\* the id sequence handed out for it, a connected pipe the token of its
\* connect and an acceptor the token of its bind, and a token waiting to be
\* reused by a reconnect or a rebind belongs to no live endpoint; so ready
\* finds one endpoint at most under the token of an event.
C36_OneEndpointPerToken ==
    /\ DOMAIN pipes \cap DOMAIN acceptors = {}
    /\ TokensToReplace \cap (DOMAIN pipes \cup DOMAIN acceptors) = {}
    /\ DOMAIN origins \cap DOMAIN bound = {}
    /\ \A tok \in DOMAIN pipes \cup DOMAIN acceptors : tok < idSeq
    /\ \A tok \in DOMAIN acceptors :
          tok \in DOMAIN bound /\ bound[tok] = acceptors[tok]
    /\ \A tok \in DOMAIN pipes :
          IF pipes[tok].addr # None
          THEN tok \in DOMAIN origins /\ origins[tok] = pipes[tok].addr[1]
          ELSE tok \notin DOMAIN origins \cup DOMAIN bound

\* C36 witness: the socket holds an acceptor while a pipe error has left
\* the token of a connected pipe to be reused by a reconnect.
C36_Witness ==
    /\ DOMAIN acceptors # {}
    /\ \E t \in BagToSet(timers) : t.kind = "Reconnect"


----------------------------------------------------------------------------
\* Claims about the blocking calls of the facade

\* The command the blocked call of the facade has enqueued.
AwaitedCmd ==
    CASE awaiting = "connect" -> "Connect"
      [] awaiting = "bind" -> "Bind"
      [] awaiting = "send" -> "SendMsg"
      [] awaiting = "recv" -> "RecvMsg"
      [] awaiting = "set_option" -> "SetOption"

\* The socket still holds the command of the blocked call: its answer is
\* to come with a pipe event or a timeout.
CommandInProgress ==
    \/ awaiting = "send" /\ pendingSend # None
    \/ awaiting = "recv" /\ pendingRecv

\* C37: a facade call enqueues one command and consumes one reply: the
\* reply channel never holds more than one reply, holds none when no call
\* is blocked (no stale reply waits for a later call), a reply in the
\* channel is of the kind of the blocked call's command, and a blocked call
\* has its reply in the channel or its command still in progress in the
\* socket, whatever pipe events and timeouts came in between.
C37_OneReplyPerCall ==
    /\ Len(inbox) <= 1
    /\ awaiting = "none" => inbox = << >>
    /\ inbox # << >> => inbox[1].kind \in Answers(AwaitedCmd)
    /\ awaiting # "none" => inbox # << >> \/ CommandInProgress


----------------------------------------------------------------------------
\* Claims about the order of the pipe states

\* The states of a pipe in the order a pipe goes through them.
StateRank(state) ==
    CASE state = "Initial" -> 0
      [] state = "HandshakeTx" -> 1
      [] state = "HandshakeRx" -> 2
      [] state = "Idle" -> 3
      [] state = "Dead" -> 4

\* Pipe::open is called in this step.
CalledOpen == \E regOk \in BOOLEAN : Pipe_open(regOk)

C38_Step ==
    /\ pstate' \in { "Initial", "HandshakeTx", "HandshakeRx", "Idle", "Dead" }
    /\ StateRank(pstate') >= StateRank(pstate)
    /\ pstate = "Dead" =>
          /\ pstate' = "Dead"
          /\ signals' = signals
          /\ wrote' = wrote
          /\ stream' = stream
    /\ (CalledOpen /\ pstate # "Initial") => pstate' = "Dead"

\* C38: the pipe holds one of its five states after every operation; no
\* operation takes it back to an earlier state of Initial, HandshakeTx,
\* HandshakeRx, Idle; a Dead pipe stays Dead under open, ready and recv,
\* sends no signal and does no input or output; and open on a pipe that is
\* not in Initial takes it to Dead.
C38_StatesMoveForward == [][C38_Step]_vars

\* C38 witness: a pipe that was opened and registered is Dead with its
\* registration still armed, as after a second open, so that open, ready and
\* recv can all be called on the Dead pipe.
C38_Witness ==
    /\ pstate = "Dead"
    /\ registry # None
    /\ registry[1].armed


----------------------------------------------------------------------------
\* Claims about a pipe during its handshake

HandshakeStates == { "Initial", "HandshakeTx", "HandshakeRx" }

\* The interest a pipe in its handshake waits for.
AwaitedInterest == IF pstate = "HandshakeTx" THEN "writable" ELSE "readable"

\* Pipe::recv is called in this step.
CalledPipeRecv ==
    \E n1 \in ReadCounts(8), ok1 \in BOOLEAN :
        \E r2 \in SecondReads(n1, ok1) : Pipe_recv(n1, ok1, r2[1], r2[2])

\* Pipe::ready is called in this step, on a pipe in HandshakeTx or
\* HandshakeRx, with an event that lacks the awaited interest.
ReadyWithoutAwaited ==
    /\ pstate \in { "HandshakeTx", "HandshakeRx" }
    /\ \E regOk \in BOOLEAN : Pipe_ready({}, 0, TRUE, regOk)

\* No byte is read or written and no signal is sent in this step.
NoTraffic == UNCHANGED << stream, wrote, rxBytes, signals >>

\* The awaited interest is re-registered in this step.
ReregisteredAwaited ==
    registry' = Some([registry[1] EXCEPT !.interest = AwaitedInterest,
                                         !.poll = EdgeOneshot,
                                         !.armed = TRUE,
                                         !.reregistered = TRUE])

C39_RecvStep ==
    (pstate \in HandshakeStates /\ CalledPipeRecv) =>
        /\ pstate' = pstate
        /\ registry' = registry
        /\ NoTraffic

C39_ReadyKeepsState ==
    ReadyWithoutAwaited =>
        /\ pstate' = pstate
        /\ ReregisteredAwaited
        /\ NoTraffic

C39_ReadyKeepsStateOrFails ==
    ReadyWithoutAwaited =>
        /\ NoTraffic
        /\ \/ pstate' = pstate /\ ReregisteredAwaited
           \/ /\ pstate' = "Dead"
              /\ registry' = Some([registry[1] EXCEPT !.armed = FALSE])

\* C39 as stated: recv on a pipe in Initial, HandshakeTx or HandshakeRx
\* keeps the state, reads nothing, changes no registration and sends no
\* signal, and a readiness event without the awaited interest only
\* re-registers that interest and keeps the state.
C39_AsStated == [][C39_RecvStep /\ C39_ReadyKeepsState]_vars

\* C39 amended: as above, except that the readiness event without the
\* awaited interest keeps the state only when the re-registration
\* succeeds; when it fails the pipe goes to Dead with its registration
\* as the event left it.
C39_HandshakeUndisturbed == [][C39_RecvStep /\ C39_ReadyKeepsStateOrFails]_vars

\* C39 witness: a pipe still in HandshakeTx has re-registered, which only
\* the readiness event without writable makes it do.
C39_Witness ==
    /\ pstate = "HandshakeTx"
    /\ registry # None
    /\ registry[1].reregistered


----------------------------------------------------------------------------
\* Claims about the two pipe state machines

\* C40: open (the registration succeeding or failing), recv and ready
\* applied to a pipe in Initial leave the pipe of pipe.rs and the pipe of
\* transport/stream in the state of the same name, with the same
\* registrations made in the readiness registry.
C40_DesignsAgreeOnInitial ==
    IF results = << >> THEN TRUE ELSE results[1].first = results[1].second

=============================================================================
